---- MODULE Spec2Model ----
(***************************************************************************)
(* The position/lot accounting engine of the portfolio dashboard:          *)
(*   - web.CalculateAllPositions   (FIFO stock lots, src/web/analytics.go) *)
(*   - web.CalculateOptionPositions (option life cycle,                     *)
(*     src/web/options_transactions.go)                                     *)
(*                                                                          *)
(* Representation.  Money and share counts are float64 in the source; the  *)
(* model holds them as integers (whole currency units, whole shares) and   *)
(* the inputs are drawn so that every pro-rata split of a lot is an exact  *)
(* quotient.  A quotient the code leaves as a float (an average price, a   *)
(* percentage) is held as the exact fraction <<numerator, denominator>>.   *)
(* A date string "YYYY-MM-DD" is held as its day number (string order of   *)
(* ISO dates is day order); the empty string is NoDate.  An instant is a   *)
(* number of hours; time.Parse of a date gives midnight of that day.       *)
(***************************************************************************)
EXTENDS Integers, Sequences, FiniteSets, Bags, TLC

VARIABLES
    transactions,    \* []StockTransaction given to CalculateAllPositions
    stockPrices,     \* map[string]float64 given to CalculateAllPositions
    txIdx,           \* position of the range loop over transactions
    symbolLots,      \* map[string][]Lot
    positions,       \* []Position (the result once pc = "done")
    pc,              \* "loop" | "sort" | "done"
    optionTransactions, \* []OptionTransaction given to CalculateOptionPositions
    stockCostBasis,  \* map[string]float64 of calculateStockCostBasisAtDate
    now,             \* time.Now() of the call, in hours
    optIdx,          \* position of the range loop over optionTransactions
    positionMap,     \* map[string]*OptionPosition
    optionPositions, \* []OptionPosition (the result once opc = "done")
    opc,             \* "idle" | "load" | "loop" | "done"
    cashTransactions, \* []Transaction: the rows of data/transactions.csv
    cashFlows,       \* []CashFlowEvent of CalculateTimeWeightedReturn
    flowIdx,         \* i of the loop over cashFlows (1-based)
    startValue,      \* start value of the current sub-period
    periodReturns,   \* []float64
    cumulativeTWR,   \* first result, in percent
    annualizedTWR,   \* second result: the operands of its math.Pow
    tpc,             \* "idle" | "collect" | "periods" | "link" | "done"
    totalActiveCapital, \* Analytics.TotalActiveCapital
    dailyReturns,    \* []DailyReturn of CalculateDailyReturnsNew
    positionDetails, \* []PositionDetail of CalculatePositionDetails
    apc,             \* "idle" | "analytics" | "details" | "done"
    sectorMap,       \* map[string]string of LoadSectorMapping
    sectorExposures, \* []SectorExposure of CalculateSectorExposure
    spc,             \* "idle" | "sectors" | "done"
    universeFile,    \* rows of data/universe.csv
    stocks,          \* []UniverseStock of update-universe's main
    jobs,            \* the jobs channel: its buffer
    jobsClosed,      \* close(jobs) has happened
    results,         \* the results channel: its buffer
    resultsClosed,   \* close(results) has happened
    wg,              \* counter of the sync.WaitGroup
    waiting,         \* number of workers waiting in their range over jobs
    working,         \* bag of [pc, result], one per worker that holds a job
    mainPc,          \* "idle" | "jobs" | "close" | "results" | "write" | "done"
    jobIdx,          \* i of main's loop sending the jobs (1-based)
    successCount,
    errorCount,
    panicked,        \* a goroutine has panicked
    taken,           \* per index: the workers that received it
    quoted,          \* per index: the results built for it
    delivered,       \* per index: the results main received for it
    cashPosition,    \* CashPosition of web.CalculateCashPosition
    dryPowder,       \* result of analysis.getDryPowder
    cpc              \* "idle" | "web" | "analysis" | "done"

stockVars == <<transactions, stockPrices, txIdx, symbolLots, positions, pc>>

optionVars == <<optionTransactions, stockCostBasis, now, optIdx, positionMap,
                optionPositions, opc>>

returnVars == <<cashTransactions, cashFlows, flowIdx, startValue, periodReturns,
                cumulativeTWR, annualizedTWR, tpc>>

analyticsVars == <<totalActiveCapital, dailyReturns, positionDetails, apc>>

sectorVars == <<sectorMap, sectorExposures, spc>>

poolVars == <<universeFile, stocks, jobs, jobsClosed, results, resultsClosed, wg,
              waiting, working, mainPc, jobIdx, successCount, errorCount,
              panicked, taken, quoted, delivered>>

cashVars == <<cashPosition, dryPowder, cpc>>

toolVars == <<sectorVars, poolVars, cashVars>>

derivedVars == <<returnVars, analyticsVars, toolVars>>

vars == <<transactions, stockPrices, txIdx, symbolLots, positions, pc,
          optionTransactions, stockCostBasis, now, optIdx, positionMap,
          optionPositions, opc,
          cashTransactions, cashFlows, flowIdx, startValue, periodReturns,
          cumulativeTWR, annualizedTWR, tpc,
          totalActiveCapital, dailyReturns, positionDetails, apc,
          sectorMap, sectorExposures, spc,
          universeFile, stocks, jobs, jobsClosed, results, resultsClosed, wg,
          waiting, working, mainPc, jobIdx, successCount, errorCount,
          panicked, taken, quoted, delivered,
          cashPosition, dryPowder, cpc>>

(***************************************************************************)
(* Bounds and input sets                                                   *)
(***************************************************************************)
MaxTx == 4

Symbols == {"X", "Y"}

\* the empty date string
NoDate == 0

StockTx(d, t, s, sh, pr, am, co) ==
    [Date |-> d, Type |-> t, Symbol |-> s, Shares |-> sh, Price |-> pr,
     Amount |-> am, Commission |-> co]

BuyX10 == StockTx(2, "Buy", "X", 10, 10, 100, 0)
BuyX5 == StockTx(1, "Buy", "X", 5, 20, 100, 0)
BuyY4 == StockTx(1, "Buy", "Y", 4, 5, 20, 4)
SellX12 == StockTx(3, "Sell", "X", 12, 15, 180, 1)
SellX3 == StockTx(3, "Sell", "X", 3, 8, 24, 0)
SellY6 == StockTx(4, "Sell", "Y", 6, 6, 36, 1)
SellY1 == StockTx(2, "Sell", "Y", 1, 7, 7, 1)
SellX2 == StockTx(4, "Sell", "X", 2, 9, 18, 0)

StockTxs == {BuyX10, BuyX5, BuyY4, SellX12, SellX3, SellX2, SellY6, SellY1}

\* ascending string order of the symbols
SymbolOrder == <<"X", "Y">>

SymbolLess(a, b) ==
    \E i, j \in DOMAIN SymbolOrder :
        SymbolOrder[i] = a /\ SymbolOrder[j] = b /\ i < j

PriceMaps == {<<>>, [s \in {"X"} |-> 30]}

SeqsUpTo(S, n) == UNION {[1..k -> S] : k \in 0..n}

(***************************************************************************)
(* Arithmetic helpers                                                      *)
(***************************************************************************)
Ratio(n, d) == <<n, d>>

ZeroRatio == Ratio(0, 1)

RECURSIVE SumShares(_)
SumShares(lots) ==
    IF lots = <<>> THEN 0 ELSE Head(lots).Shares + SumShares(Tail(lots))

RECURSIVE SumCostBasis(_)
SumCostBasis(lots) ==
    IF lots = <<>> THEN 0 ELSE Head(lots).CostBasis + SumCostBasis(Tail(lots))

RECURSIVE SumPriceShares(_)
SumPriceShares(lots) ==
    IF lots = <<>> THEN 0
    ELSE Head(lots).Price * Head(lots).Shares + SumPriceShares(Tail(lots))

RECURSIVE EarliestDate(_, _)
EarliestDate(lots, openDate) ==
    IF lots = <<>> THEN openDate
    ELSE EarliestDate(Tail(lots),
                      IF Head(lots).Date < openDate THEN Head(lots).Date ELSE openDate)

(***************************************************************************)
(* CalculateAllPositions: the Buy branch                                   *)
(***************************************************************************)
NewLotWithoutCommission(tx) ==
    [Date |-> tx.Date, Shares |-> tx.Shares, Price |-> tx.Price,
     CostBasis |-> tx.Amount]

NewLot(tx) ==
    [Date |-> tx.Date, Shares |-> tx.Shares, Price |-> tx.Price,
     CostBasis |-> tx.Amount + tx.Commission]

(***************************************************************************)
(* CalculateAllPositions: the Sell branch.  ConsumeLots is the inner range *)
(* loop over the symbol's lots; acc carries closedLots, newLots and        *)
(* totalCostBasisSold.                                                     *)
(***************************************************************************)
\* the shares sold at the lot's price, the commission of the Buy left out
CostBasisAtBuyPrice(lot, remainingToSell) == lot.Price * remainingToSell

CostBasisFraction(lot, remainingToSell) ==
    (lot.CostBasis * remainingToSell) \div lot.Shares

ClosedPartOfLotWhole(lot, remainingToSell) ==
    [Date |-> lot.Date, Shares |-> lot.Shares, Price |-> lot.Price,
     CostBasis |-> CostBasisFraction(lot, remainingToSell)]

ClosedPartOfLot(lot, remainingToSell) ==
    [Date |-> lot.Date, Shares |-> remainingToSell, Price |-> lot.Price,
     CostBasis |-> CostBasisFraction(lot, remainingToSell)]

RemainderOfLotReversed(lot, remainingToSell) ==
    [lot EXCEPT !.Shares = remainingToSell - @,
                !.CostBasis = @ - CostBasisFraction(lot, remainingToSell)]

RemainderOfLot(lot, remainingToSell) ==
    [lot EXCEPT !.Shares = @ - remainingToSell,
                !.CostBasis = @ - CostBasisFraction(lot, remainingToSell)]

RECURSIVE ConsumeLots(_, _, _)
ConsumeLots(lots, remainingToSell, acc) ==
    IF lots = <<>> THEN acc
    ELSE LET lot == Head(lots) IN
         IF remainingToSell <= 0
         THEN ConsumeLots(Tail(lots), remainingToSell,
                          [acc EXCEPT !.newLots = Append(@, lot)])
         ELSE IF lot.Shares <= remainingToSell
         THEN ConsumeLots(Tail(lots), remainingToSell - lot.Shares,
                          [acc EXCEPT !.closedLots = Append(@, lot),
                                      !.totalCostBasisSold = @ + lot.CostBasis])
         ELSE ConsumeLots(Tail(lots), 0,
                          [acc EXCEPT
                             !.closedLots = Append(@, ClosedPartOfLot(lot, remainingToSell)),
                             !.totalCostBasisSold = @ + CostBasisFraction(lot, remainingToSell),
                             !.newLots = Append(@, RemainderOfLot(lot, remainingToSell))])

Reverse(s) == [k \in 1..Len(s) |-> s[Len(s) + 1 - k]]

SellResultNewestFirst(lots, tx) ==
    LET r == ConsumeLots(Reverse(lots), tx.Shares,
                         [closedLots |-> <<>>, newLots |-> <<>>,
                          totalCostBasisSold |-> 0])
    IN [r EXCEPT !.newLots = Reverse(@)]

SellResult(lots, tx) ==
    ConsumeLots(lots, tx.Shares,
                [closedLots |-> <<>>, newLots |-> <<>>, totalCostBasisSold |-> 0])

\* the closed Position of one Sell; shares is totalShares of the closed lots
\* and closeDate the Sell's date
ClosedPositionCore(tx, closedLots, totalCostBasisSold, shares, closeDate) ==
    LET saleProceeds == tx.Amount - tx.Commission
        pnl == saleProceeds - totalCostBasisSold
    IN [Symbol |-> tx.Symbol,
        Type |-> "closed",
        Shares |-> shares,
        AvgBuyPrice |-> Ratio(SumPriceShares(closedLots), SumShares(closedLots)),
        AvgSellPrice |-> tx.Price,
        CostBasis |-> totalCostBasisSold,
        SaleProceeds |-> saleProceeds,
        RealizedPnL |-> pnl,
        ReturnPerc |-> IF totalCostBasisSold > 0
                       THEN Ratio(pnl * 100, totalCostBasisSold) ELSE ZeroRatio,
        OpenDate |-> EarliestDate(closedLots, closedLots[1].Date),
        CloseDate |-> closeDate,
        CurrentPrice |-> 0,
        MarketValue |-> 0,
        UnrealizedPnL |-> 0,
        UnrealizedPerc |-> ZeroRatio]

ClosedPositionRequestedShares(tx, closedLots, totalCostBasisSold) ==
    ClosedPositionCore(tx, closedLots, totalCostBasisSold, tx.Shares, tx.Date)

ClosedPositionOpenDated(tx, closedLots, totalCostBasisSold) ==
    ClosedPositionCore(tx, closedLots, totalCostBasisSold, SumShares(closedLots),
                       closedLots[1].Date)

ClosedPosition(tx, closedLots, totalCostBasisSold) ==
    ClosedPositionCore(tx, closedLots, totalCostBasisSold, SumShares(closedLots),
                       tx.Date)

(***************************************************************************)
(* CalculateAllPositions: the open Position of one symbol                  *)
(***************************************************************************)
\* stockPrices[symbol]: a missing key reads as 0
PriceOf(prices, symbol) ==
    IF symbol \in DOMAIN prices THEN prices[symbol] ELSE 0

\* the open Position of a symbol from the sums over its remaining lots
OpenPositionCore(symbol, lots, prices, totalShares, totalCostBasis, currentPrice) ==
    LET marketValue == currentPrice * totalShares
        unrealizedPnL == marketValue - totalCostBasis
    IN [Symbol |-> symbol,
        Type |-> "open",
        Shares |-> totalShares,
        AvgBuyPrice |-> Ratio(totalCostBasis, totalShares),
        AvgSellPrice |-> 0,
        CostBasis |-> totalCostBasis,
        SaleProceeds |-> 0,
        RealizedPnL |-> 0,
        ReturnPerc |-> ZeroRatio,
        OpenDate |-> EarliestDate(lots, lots[1].Date),
        CloseDate |-> NoDate,
        CurrentPrice |-> currentPrice,
        MarketValue |-> marketValue,
        UnrealizedPnL |-> unrealizedPnL,
        UnrealizedPerc |-> IF totalCostBasis > 0
                           THEN Ratio(unrealizedPnL * 100, totalCostBasis)
                           ELSE ZeroRatio]

OpenPositionFirstLotOnly(symbol, lots, prices) ==
    OpenPositionCore(symbol, lots, prices, SumShares(lots), lots[1].CostBasis,
                     PriceOf(prices, symbol))

OpenPosition(symbol, lots, prices) ==
    OpenPositionCore(symbol, lots, prices, SumShares(lots), SumCostBasis(lots),
                     PriceOf(prices, symbol))

HasOpenPosition(lots) == Len(lots) > 0 /\ SumShares(lots) > 0

\* the range over the symbolLots map, in the iteration order `order`
RECURSIVE OpenPositions(_, _, _)
OpenPositions(order, lotsOf, prices) ==
    IF order = <<>> THEN <<>>
    ELSE LET symbol == Head(order)
             rest == OpenPositions(Tail(order), lotsOf, prices)
         IN IF HasOpenPosition(lotsOf[symbol])
            THEN <<OpenPosition(symbol, lotsOf[symbol], prices)>> \o rest
            ELSE rest

Orders(S) ==
    {o \in [1..Cardinality(S) -> S] : \A a, b \in DOMAIN o : a # b => o[a] # o[b]}

(***************************************************************************)
(* CalculateAllPositions: the final sort.Slice.  On a slice of at most 12   *)
(* elements sort.Slice is an insertion sort: each element in turn is        *)
(* swapped down while it is `less` than the element before it, so elements  *)
(* that tie keep the order they had in the slice.  The slices sorted here   *)
(* hold at most MaxTx Positions.                                            *)
(***************************************************************************)
\* the comparator without its comparison of the symbols
PositionLessIgnoringSymbol(a, b) ==
    IF a.Type # b.Type THEN a.Type = "open"
    ELSE a.OpenDate < b.OpenDate

PositionLessClosedFirst(a, b) ==
    IF a.Symbol # b.Symbol THEN SymbolLess(a.Symbol, b.Symbol)
    ELSE IF a.Type # b.Type THEN a.Type = "closed"
    ELSE a.OpenDate < b.OpenDate

PositionLess(a, b) ==
    IF a.Symbol # b.Symbol THEN SymbolLess(a.Symbol, b.Symbol)
    ELSE IF a.Type # b.Type THEN a.Type = "open"
    ELSE a.OpenDate < b.OpenDate

\* the inner loop of the insertion sort: the element at j is swapped with
\* the one before it while it is less than it
RECURSIVE SinkDown(_, _)
SinkDown(data, j) ==
    IF j > 1 /\ PositionLess(data[j], data[j - 1])
    THEN SinkDown([data EXCEPT ![j] = data[j - 1], ![j - 1] = data[j]], j - 1)
    ELSE data

\* the outer loop, from the element at i on
RECURSIVE InsertionSort(_, _)
InsertionSort(data, i) ==
    IF i > Len(data) THEN data
    ELSE InsertionSort(SinkDown(data, i), i + 1)

\* sort.Slice(positions, less)
SortSlice(data) == InsertionSort(data, 2)

(***************************************************************************)
(* State machine of one call of CalculateAllPositions                      *)
(***************************************************************************)
\* no call of CalculateOptionPositions is under way
ReturnIdle ==
    /\ cashTransactions = <<>>
    /\ cashFlows = <<>>
    /\ flowIdx = 1
    /\ startValue = 0
    /\ periodReturns = <<>>
    /\ cumulativeTWR = ZeroRatio
    /\ annualizedTWR = [Base |-> Ratio(1, 1), Exponent |-> Ratio(1, 1)]
    /\ tpc = "idle"

AnalyticsIdle ==
    /\ totalActiveCapital = ZeroRatio
    /\ dailyReturns = <<>>
    /\ positionDetails = <<>>
    /\ apc = "idle"

SectorIdle ==
    /\ sectorMap = <<>>
    /\ sectorExposures = <<>>
    /\ spc = "idle"

PoolIdle ==
    /\ universeFile = <<>>
    /\ stocks = <<>>
    /\ jobs = <<>>
    /\ jobsClosed = FALSE
    /\ results = <<>>
    /\ resultsClosed = FALSE
    /\ wg = 0
    /\ waiting = 0
    /\ working = EmptyBag
    /\ mainPc = "idle"
    /\ jobIdx = 1
    /\ successCount = 0
    /\ errorCount = 0
    /\ panicked = FALSE
    /\ taken = <<>>
    /\ quoted = <<>>
    /\ delivered = <<>>

CashIdle ==
    /\ cashPosition = [ActiveCapital |-> ZeroRatio, DryPowder |-> ZeroRatio]
    /\ dryPowder = ZeroRatio
    /\ cpc = "idle"

ToolIdle == SectorIdle /\ PoolIdle /\ CashIdle

DerivedIdle == ReturnIdle /\ AnalyticsIdle /\ ToolIdle

OptionIdle ==
    /\ optionTransactions = <<>>
    /\ stockCostBasis = <<>>
    /\ now = 0
    /\ optIdx = 1
    /\ positionMap = <<>>
    /\ optionPositions = <<>>
    /\ opc = "idle"

StockInit ==
    /\ OptionIdle
    /\ DerivedIdle
    /\ transactions \in SeqsUpTo(StockTxs, MaxTx)
    /\ stockPrices \in PriceMaps
    /\ txIdx = 1
    /\ symbolLots = [s \in Symbols |-> <<>>]
    /\ positions = <<>>
    /\ pc = "loop"

ProcessBuy ==
    /\ pc = "loop"
    /\ txIdx <= Len(transactions)
    /\ transactions[txIdx].Type = "Buy"
    /\ LET tx == transactions[txIdx] IN
         symbolLots' = [symbolLots EXCEPT ![tx.Symbol] = Append(@, NewLot(tx))]
    /\ txIdx' = txIdx + 1
    /\ UNCHANGED <<transactions, stockPrices, positions, pc>>
    /\ UNCHANGED optionVars
    /\ UNCHANGED derivedVars

ProcessSell ==
    /\ pc = "loop"
    /\ txIdx <= Len(transactions)
    /\ transactions[txIdx].Type = "Sell"
    /\ LET tx == transactions[txIdx]
           r == SellResult(symbolLots[tx.Symbol], tx)
       IN /\ symbolLots' = [symbolLots EXCEPT ![tx.Symbol] = r.newLots]
          /\ positions' =
               IF Len(r.closedLots) > 0
               THEN Append(positions,
                           ClosedPosition(tx, r.closedLots, r.totalCostBasisSold))
               ELSE positions
    /\ txIdx' = txIdx + 1
    /\ UNCHANGED <<transactions, stockPrices, pc>>
    /\ UNCHANGED optionVars
    /\ UNCHANGED derivedVars

CollectOpen ==
    /\ pc = "loop"
    /\ txIdx > Len(transactions)
    /\ \E order \in Orders(Symbols) :
         positions' = positions \o OpenPositions(order, symbolLots, stockPrices)
    /\ pc' = "sort"
    /\ UNCHANGED <<transactions, stockPrices, txIdx, symbolLots>>
    /\ UNCHANGED optionVars
    /\ UNCHANGED derivedVars

SortPositions ==
    /\ pc = "sort"
    /\ positions' = SortSlice(positions)
    /\ pc' = "done"
    /\ UNCHANGED <<transactions, stockPrices, txIdx, symbolLots>>
    /\ UNCHANGED optionVars
    /\ UNCHANGED derivedVars

StockNext == ProcessBuy \/ ProcessSell \/ CollectOpen \/ SortPositions

SpecStock == StockInit /\ [][StockNext]_vars

(***************************************************************************)
(* CalculateOptionPositions: inputs                                        *)
(***************************************************************************)
MaxOptTx == 3

HoursPerDay == 24

OptTx(d, a, s, t, k, e, c, p, sp, co, id, n) ==
    [Date |-> d, Action |-> a, Symbol |-> s, OptionType |-> t, Strike |-> k,
     Expiry |-> e, Contracts |-> c, Premium |-> p, StockPrice |-> sp,
     Commission |-> co, PositionID |-> id, Notes |-> n]

\* notes, as sequences of characters
NoNotes == <<>>
NotesRolled == <<"R", "o", "l", "l", "e", "d">>
NotesToRoll == <<"t", "o", " ", "R", "O", "L", "L">>
NotesRol == <<"r", "o", "l", " ", "l">>

StoP1 == OptTx(1, "Sell to Open", "X", "Put", 50, 5, 1, 100, 48, 1, "P1", NoNotes)
StoP2 == OptTx(3, "Sell to Open", "Y", "Call", 20, NoDate, 2, 60, 18, 2, "P2", NoNotes)
BtcP1 == OptTx(3, "Buy to Close", "X", "Put", 50, 5, 1, -40, 49, 1, "P1", NoNotes)
BtcP1Rolled == OptTx(4, "Buy to Close", "X", "Put", 50, 5, 1, 30, 47, 2, "P1", NotesRolled)
BtcP2Rol == OptTx(4, "Buy to Close", "Y", "Call", 20, 2, 2, -10, 19, 1, "P2", NotesRol)
BtcP2ToRoll == OptTx(5, "Buy to Close", "Y", "Call", 20, 2, 2, -25, 21, 0, "P2", NotesToRoll)
ExpiredP1 == OptTx(5, "Expired", "X", "Put", 50, 5, 1, 0, 51, 0, "P1", NoNotes)
AssignedP2 == OptTx(4, "Assigned", "Y", "Call", 20, 2, 2, 0, 22, 3, "P2", NoNotes)
ExercisedP1 == OptTx(4, "Exercised", "X", "Put", 50, 5, 1, 0, 45, 0, "P1", NoNotes)
StoNoID == OptTx(2, "Sell to Open", "X", "Put", 40, 5, 1, 70, 48, 1, "", NoNotes)
StoP1Two == OptTx(2, "Sell to Open", "X", "Put", 45, 5, 2, 80, 47, 1, "P1", NoNotes)

OptionTxs == {StoP1, StoP2, BtcP1, BtcP1Rolled, BtcP2Rol, BtcP2ToRoll, ExpiredP1,
              AssignedP2, ExercisedP1, StoNoID, StoP1Two}

\* maps calculateStockCostBasisAtDate returns: no holdings, and 4 shares of Y
\* held at a cost basis of 24
CostBasisMaps == {<<>>, [s \in {"Y"} |-> Ratio(24, 4)]}

(***************************************************************************)
(* time.Parse("2006-01-02", d): midnight of day d, in hours; the empty     *)
(* string does not parse.                                                  *)
(***************************************************************************)
ParseOK(d) == d # NoDate

ParseDate(d) == d * HoursPerDay

NowChoices == {ParseDate(4), ParseDate(5), ParseDate(5) + 12}

\* int(b.Sub(a).Hours() / 24): the conversion truncates toward zero
DaysBetween(a, b) ==
    LET hours == ParseDate(b) - ParseDate(a)
    IN IF hours >= 0 THEN hours \div HoursPerDay ELSE -((-hours) \div HoursPerDay)

(***************************************************************************)
(* strings.Contains(strings.ToLower(notes), "roll")                        *)
(***************************************************************************)
UpperCase == <<"A", "B", "C", "D", "E", "F", "G", "H", "I", "J", "K", "L", "M",
               "N", "O", "P", "Q", "R", "S", "T", "U", "V", "W", "X", "Y", "Z">>

LowerCase == <<"a", "b", "c", "d", "e", "f", "g", "h", "i", "j", "k", "l", "m",
               "n", "o", "p", "q", "r", "s", "t", "u", "v", "w", "x", "y", "z">>

ToLowerChar(c) ==
    IF \E k \in DOMAIN UpperCase : UpperCase[k] = c
    THEN LowerCase[CHOOSE k \in DOMAIN UpperCase : UpperCase[k] = c]
    ELSE c

ToLower(str) == [k \in DOMAIN str |-> ToLowerChar(str[k])]

Contains(str, sub) ==
    \E k \in 0..(Len(str) - Len(sub)) : SubSeq(str, k + 1, k + Len(sub)) = sub

NotesMentionRollCaseSensitive(notes) == Contains(notes, <<"r", "o", "l", "l">>)

NotesMentionRoll(notes) == Contains(ToLower(notes), <<"r", "o", "l", "l">>)

(***************************************************************************)
(* CalculateOptionPositions: the loop over the transactions                *)
(***************************************************************************)
NewOptionPosition(tx) ==
    [PositionID |-> tx.PositionID, Symbol |-> tx.Symbol,
     OptionType |-> tx.OptionType, Strike |-> tx.Strike, Expiry |-> tx.Expiry,
     Contracts |-> tx.Contracts, Status |-> "Open", OpenDate |-> NoDate,
     CloseDate |-> NoDate, PremiumCollected |-> 0, PremiumPaid |-> 0,
     NetPremium |-> 0, Commissions |-> 0, MaxProfit |-> 0, DaysHeld |-> 0,
     DaysToExpiry |-> 0, AnnualizedReturn |-> ZeroRatio,
     PercentReturn |-> ZeroRatio, Capital |-> ZeroRatio]

\* positionMap[tx.PositionID], created on the first transaction of the id
PositionFor(pm, tx) ==
    IF tx.PositionID \in DOMAIN pm THEN pm[tx.PositionID] ELSE NewOptionPosition(tx)

Abs(x) == IF x < 0 THEN -x ELSE x

\* the capital requirement, a float64 product, as an exact fraction; an entry
\* of costBasisOf is the fraction totalCostBasis / totalShares
CapitalRequiredFromStockPrice(tx, costBasisOf) ==
    Ratio(tx.StockPrice * tx.Contracts * 100, 1)

CapitalRequired(tx, costBasisOf) ==
    IF tx.OptionType = "Put" THEN Ratio(tx.Strike * tx.Contracts * 100, 1)
    ELSE IF tx.Symbol \in DOMAIN costBasisOf
         THEN Ratio(costBasisOf[tx.Symbol][1] * tx.Contracts * 100,
                    costBasisOf[tx.Symbol][2])
         ELSE Ratio(tx.StockPrice * tx.Contracts * 100, 1)

ApplySellToOpen(pos, tx, costBasisOf) ==
    [pos EXCEPT !.OpenDate = tx.Date,
                !.PremiumCollected = @ + tx.Premium,
                !.Commissions = @ + tx.Commission,
                !.Capital = CapitalRequired(tx, costBasisOf)]

ApplyBuyToCloseSignedPremium(pos, tx) ==
    [pos EXCEPT !.PremiumPaid = @ + tx.Premium,
                !.Commissions = @ + tx.Commission,
                !.CloseDate = tx.Date,
                !.Status = IF NotesMentionRoll(tx.Notes) THEN "Rolled"
                           ELSE "Closed Early"]

ApplyBuyToClose(pos, tx) ==
    [pos EXCEPT !.PremiumPaid = @ + Abs(tx.Premium),
                !.Commissions = @ + tx.Commission,
                !.CloseDate = tx.Date,
                !.Status = IF NotesMentionRoll(tx.Notes) THEN "Rolled"
                           ELSE "Closed Early"]

\* the cases "Expired", "Assigned" and "Exercised"
ApplyTerminalAction(pos, tx) ==
    [pos EXCEPT !.CloseDate = tx.Date, !.Status = tx.Action]

TerminalActions == {"Expired", "Assigned", "Exercised"}

(***************************************************************************)
(* CalculateOptionPositions: the metrics of one position                   *)
(***************************************************************************)
WithNetPremium(pos) ==
    [pos EXCEPT !.NetPremium = pos.PremiumCollected - pos.PremiumPaid - pos.Commissions,
                !.MaxProfit = pos.PremiumCollected]

WithDaysHeld(pos) ==
    IF pos.OpenDate # NoDate /\ pos.CloseDate # NoDate
    THEN [pos EXCEPT !.DaysHeld = DaysBetween(pos.OpenDate, pos.CloseDate)]
    ELSE pos

WithDaysToExpiryUnfloored(pos) ==
    IF pos.OpenDate # NoDate /\ pos.Expiry # NoDate
    THEN [pos EXCEPT !.DaysToExpiry = DaysBetween(pos.OpenDate, pos.Expiry)]
    ELSE pos

WithDaysToExpiry(pos) ==
    IF pos.OpenDate # NoDate /\ pos.Expiry # NoDate
    THEN LET days == DaysBetween(pos.OpenDate, pos.Expiry)
         IN [pos EXCEPT !.DaysToExpiry = IF days < 1 THEN 1 ELSE days]
    ELSE pos

Positive(r) == r[1] * r[2] > 0

WithReturns(pos) ==
    IF Positive(pos.Capital)
    THEN [pos EXCEPT
            !.PercentReturn = Ratio(pos.NetPremium * 100 * pos.Capital[2],
                                    pos.Capital[1]),
            !.AnnualizedReturn =
                IF pos.DaysToExpiry > 0
                THEN Ratio(pos.NetPremium * 100 * pos.Capital[2] * 365,
                           pos.Capital[1] * pos.DaysToExpiry)
                ELSE @]
    ELSE pos

\* time.Now().After(expiryTime)
ExpiryReachedOrPassed(t, expiry) == t >= ParseDate(expiry)

ExpiryPassed(t, expiry) == t > ParseDate(expiry)

WithLazyExpiry(pos, t) ==
    IF /\ pos.Status = "Open"
       /\ pos.CloseDate = NoDate
       /\ ParseOK(pos.Expiry)
       /\ ExpiryPassed(t, pos.Expiry)
    THEN [pos EXCEPT !.Status = "Expired", !.CloseDate = pos.Expiry]
    ELSE pos

PositionMetrics(pos, t) ==
    WithLazyExpiry(WithReturns(WithDaysToExpiry(WithDaysHeld(WithNetPremium(pos)))), t)

(***************************************************************************)
(* State machine of the calls of CalculateOptionPositions                  *)
(***************************************************************************)
\* no call of CalculateAllPositions is under way
(***************************************************************************)
(* calculateStockCostBasisAtDate: the option aggregator's own FIFO replay  *)
(* of the stock transactions, giving the average cost basis per share of   *)
(* each symbol still held                                                   *)
(***************************************************************************)
\* the partially sold lot as the loop keeps it
PartialLotKeptAtFullCost(lot, remainingToSell) ==
    [lot EXCEPT !.Shares = @ - remainingToSell]

PartialLotKept(lot, remainingToSell) ==
    [lot EXCEPT !.Shares = @ - remainingToSell,
                !.CostBasis = @ - (lot.CostBasis * remainingToSell) \div lot.Shares]

\* the loop over lots of one Sell: newLots
RECURSIVE RemainingLots(_, _)
RemainingLots(lots, remainingToSell) ==
    IF lots = <<>> THEN <<>>
    ELSE LET lot == Head(lots) IN
         IF remainingToSell <= 0
         THEN <<lot>> \o RemainingLots(Tail(lots), remainingToSell)
         ELSE IF lot.Shares <= remainingToSell
         THEN RemainingLots(Tail(lots), remainingToSell - lot.Shares)
         ELSE <<PartialLotKept(lot, remainingToSell)>> \o RemainingLots(Tail(lots), 0)

\* symbolLots after the transactions
RECURSIVE CurrentHoldings(_)
CurrentHoldings(txs) ==
    IF txs = <<>> THEN [s \in Symbols |-> <<>>]
    ELSE LET tx == txs[Len(txs)]
             before == CurrentHoldings(SubSeq(txs, 1, Len(txs) - 1))
         IN IF tx.Type = "Buy"
            THEN [before EXCEPT ![tx.Symbol] =
                    Append(@, [Date |-> tx.Date, Shares |-> tx.Shares,
                               Price |-> tx.Price,
                               CostBasis |-> tx.Amount + tx.Commission])]
            ELSE IF tx.Type = "Sell"
            THEN [before EXCEPT ![tx.Symbol] = RemainingLots(@, tx.Shares)]
            ELSE before

\* the cost basis per share of the oldest lot alone
costBasisOfOldestLot(txs) ==
    LET symbolLotsNow == CurrentHoldings(txs)
        held == {s \in Symbols : /\ Len(symbolLotsNow[s]) # 0
                                 /\ SumShares(symbolLotsNow[s]) > 0}
    IN [s \in held |-> Ratio(symbolLotsNow[s][1].CostBasis,
                             symbolLotsNow[s][1].Shares)]

calculateStockCostBasisAtDate(txs) ==
    LET symbolLotsNow == CurrentHoldings(txs)
        held == {s \in Symbols : /\ Len(symbolLotsNow[s]) # 0
                                 /\ SumShares(symbolLotsNow[s]) > 0}
    IN [s \in held |-> Ratio(SumCostBasis(symbolLotsNow[s]),
                             SumShares(symbolLotsNow[s]))]

StockIdle ==
    /\ transactions = <<>>
    /\ stockPrices = <<>>
    /\ txIdx = 1
    /\ symbolLots = [s \in Symbols |-> <<>>]
    /\ positions = <<>>
    /\ pc = "idle"

OptionInit ==
    /\ StockIdle
    /\ DerivedIdle
    /\ optionTransactions \in SeqsUpTo(OptionTxs, MaxOptTx)
    /\ stockCostBasis \in CostBasisMaps
    /\ now \in NowChoices
    /\ optIdx = 1
    /\ positionMap = <<>>
    /\ optionPositions = <<>>
    /\ opc = "loop"

OptionStep(action) ==
    /\ opc = "loop"
    /\ optIdx <= Len(optionTransactions)
    /\ optionTransactions[optIdx].PositionID # ""
    /\ optionTransactions[optIdx].Action = action
    /\ optIdx' = optIdx + 1
    /\ UNCHANGED <<optionTransactions, stockCostBasis, now, optionPositions, opc>>
    /\ UNCHANGED stockVars
    /\ UNCHANGED derivedVars

SkipNoPositionID ==
    /\ opc = "loop"
    /\ optIdx <= Len(optionTransactions)
    /\ optionTransactions[optIdx].PositionID = ""
    /\ optIdx' = optIdx + 1
    /\ UNCHANGED <<optionTransactions, stockCostBasis, now, positionMap,
                   optionPositions, opc>>
    /\ UNCHANGED stockVars
    /\ UNCHANGED derivedVars

SellToOpen ==
    /\ OptionStep("Sell to Open")
    /\ LET tx == optionTransactions[optIdx] IN
         positionMap' = (tx.PositionID :>
                           ApplySellToOpen(PositionFor(positionMap, tx), tx,
                                           stockCostBasis)) @@ positionMap

BuyToClose ==
    /\ OptionStep("Buy to Close")
    /\ LET tx == optionTransactions[optIdx] IN
         positionMap' = (tx.PositionID :>
                           ApplyBuyToClose(PositionFor(positionMap, tx), tx))
                        @@ positionMap

TerminalAction ==
    /\ \E action \in TerminalActions : OptionStep(action)
    /\ LET tx == optionTransactions[optIdx] IN
         positionMap' = (tx.PositionID :>
                           ApplyTerminalAction(PositionFor(positionMap, tx), tx))
                        @@ positionMap

\* the range over positionMap, in some iteration order
ComputeMetrics ==
    /\ opc = "loop"
    /\ optIdx > Len(optionTransactions)
    /\ \E order \in Orders(DOMAIN positionMap) :
         optionPositions' =
            [k \in DOMAIN order |-> PositionMetrics(positionMap[order[k]], now)]
    /\ opc' = "done"
    /\ UNCHANGED <<optionTransactions, stockCostBasis, now, optIdx, positionMap>>
    /\ UNCHANGED stockVars
    /\ UNCHANGED derivedVars

\* the next call, on the same transactions, at its own evaluation time
CallAgain ==
    /\ opc = "done"
    /\ now' \in NowChoices
    /\ optIdx' = 1
    /\ positionMap' = <<>>
    /\ optionPositions' = <<>>
    /\ opc' = "loop"
    /\ UNCHANGED <<optionTransactions, stockCostBasis>>
    /\ UNCHANGED stockVars
    /\ UNCHANGED derivedVars

OptionNext ==
    SkipNoPositionID \/ SellToOpen \/ BuyToClose \/ TerminalAction
        \/ ComputeMetrics \/ CallAgain

SpecOption == OptionInit /\ [][OptionNext]_vars

(***************************************************************************)
(* CalculateOptionPositions together with its load of the stock            *)
(* transactions file, whose rows are the variable transactions             *)
(***************************************************************************)
MaxHeldTx == 3
MaxCallTx == 2

StoP3 == OptTx(2, "Sell to Open", "X", "Call", 25, 6, 1, 40, 22, 1, "P3", NoNotes)

CallTxs == {StoP2, StoP3, BtcP2Rol, AssignedP2, StoNoID}

CoveredCallInit ==
    /\ DerivedIdle
    /\ transactions \in SeqsUpTo(StockTxs, MaxHeldTx)
    /\ stockPrices = <<>>
    /\ txIdx = 1
    /\ symbolLots = [s \in Symbols |-> <<>>]
    /\ positions = <<>>
    /\ pc = "idle"
    /\ optionTransactions \in SeqsUpTo(CallTxs, MaxCallTx)
    /\ stockCostBasis = <<>>
    /\ now = ParseDate(5)
    /\ optIdx = 1
    /\ positionMap = <<>>
    /\ optionPositions = <<>>
    /\ opc = "load"

LoadStockCostBasis ==
    /\ opc = "load"
    /\ stockCostBasis' = calculateStockCostBasisAtDate(transactions)
    /\ opc' = "loop"
    /\ UNCHANGED <<optionTransactions, now, optIdx, positionMap, optionPositions>>
    /\ UNCHANGED stockVars
    /\ UNCHANGED derivedVars

CoveredCallNext ==
    LoadStockCostBasis \/ SkipNoPositionID \/ SellToOpen \/ BuyToClose
        \/ TerminalAction \/ ComputeMetrics

SpecCoveredCall == CoveredCallInit /\ [][CoveredCallNext]_vars

(***************************************************************************)
(* CalculateAllPositions and CalculateOptionPositions as callees: the      *)
(* lists a call on given arguments can return                              *)
(***************************************************************************)
\* symbolLots and the closed Positions after the loop over txs
RECURSIVE LotsAndClosed(_)
LotsAndClosed(txs) ==
    IF txs = <<>> THEN [lots |-> [s \in Symbols |-> <<>>], closed |-> <<>>]
    ELSE LET tx == txs[Len(txs)]
             before == LotsAndClosed(SubSeq(txs, 1, Len(txs) - 1))
         IN IF tx.Type = "Buy"
            THEN [before EXCEPT !.lots[tx.Symbol] = Append(@, NewLot(tx))]
            ELSE IF tx.Type = "Sell"
            THEN LET r == SellResult(before.lots[tx.Symbol], tx) IN
                 [lots |-> [before.lots EXCEPT ![tx.Symbol] = r.newLots],
                  closed |-> IF Len(r.closedLots) > 0
                             THEN Append(before.closed,
                                         ClosedPosition(tx, r.closedLots,
                                                        r.totalCostBasisSold))
                             ELSE before.closed]
            ELSE before

CalculateAllPositions(txs, prices) ==
    LET lc == LotsAndClosed(txs) IN
    {SortSlice(lc.closed \o OpenPositions(order, lc.lots, prices)) :
        order \in Orders(Symbols)}

\* positionMap after the loop over txs
RECURSIVE PositionMapAfter(_, _)
PositionMapAfter(txs, costBasisOf) ==
    IF txs = <<>> THEN <<>>
    ELSE LET tx == txs[Len(txs)]
             before == PositionMapAfter(SubSeq(txs, 1, Len(txs) - 1), costBasisOf)
             pos == PositionFor(before, tx)
         IN IF tx.PositionID = "" THEN before
            ELSE (tx.PositionID :>
                    (IF tx.Action = "Sell to Open"
                     THEN ApplySellToOpen(pos, tx, costBasisOf)
                     ELSE IF tx.Action = "Buy to Close"
                     THEN ApplyBuyToClose(pos, tx)
                     ELSE IF tx.Action \in TerminalActions
                     THEN ApplyTerminalAction(pos, tx)
                     ELSE pos)) @@ before

\* stockTxs are the rows of data/stocks_transactions.csv, t is time.Now()
CalculateOptionPositions(txs, stockTxs, t) ==
    LET pm == PositionMapAfter(txs, calculateStockCostBasisAtDate(stockTxs)) IN
    {[k \in DOMAIN order |-> PositionMetrics(pm[order[k]], t)] :
        order \in Orders(DOMAIN pm)}

\* a float64 accumulated over a slice
RECURSIVE SumSeq(_)
SumSeq(values) ==
    IF values = <<>> THEN 0 ELSE Head(values) + SumSeq(Tail(values))

(***************************************************************************)
(* Deposits (data/transactions.csv) and CalculatePortfolioValueAsOf        *)
(***************************************************************************)
SecondsPerHour == 3600

\* an instant of the hour clock, in seconds
Seconds(t) == t * SecondsPerHour

CashTx(d, t, a) == [Date |-> d, Type |-> t, Amount |-> a]

\* Amount is the text of the CSV cell, one character per element
Dep1000 == CashTx(1, "Deposit", <<"$", "1", ",", "0", "0", "0">>)
Dep900 == CashTx(4, "Deposit", <<"$", "9", "0", "0">>)
Dep100 == CashTx(4, "Deposit", <<"1", "0", "0">>)
Withdraw50 == CashTx(2, "Withdrawal", <<"$", "5", "0">>)
DepNoDate == CashTx(NoDate, "Deposit", <<"$", "7", "0">>)
DepNoAmount == CashTx(3, "Deposit", <<"$", "x">>)
DepLate == CashTx(6, "Deposit", <<"$", "5", "0", "0">>)
DepZero == CashTx(6, "Deposit", <<"$", "0">>)

CashTxs == {Dep1000, Dep900, Dep100, Withdraw50, DepNoDate, DepNoAmount, DepLate,
            DepZero}

DigitChars == <<"0", "1", "2", "3", "4", "5", "6", "7", "8", "9">>

IsDigit(c) == \E i \in DOMAIN DigitChars : DigitChars[i] = c

DigitValue(c) == (CHOOSE i \in DOMAIN DigitChars : DigitChars[i] = c) - 1

\* strings.TrimPrefix(s, "$")
TrimPrefixDollar(str) ==
    IF str # <<>> /\ Head(str) = "$" THEN Tail(str) ELSE str

NotComma(c) == c # ","

\* strings.ReplaceAll(s, ",", "")
RemoveCommas(str) == SelectSeq(str, NotComma)

RECURSIVE DecimalValue(_)
DecimalValue(str) ==
    IF str = <<>> THEN 0
    ELSE DecimalValue(SubSeq(str, 1, Len(str) - 1)) * 10 + DigitValue(str[Len(str)])

\* strconv.ParseFloat on the texts of the inputs: unsigned decimal digits
\* parse, anything else is an error
ParseFloat(str) ==
    IF str # <<>> /\ \A i \in DOMAIN str : IsDigit(str[i])
    THEN [err |-> FALSE, value |-> DecimalValue(str)]
    ELSE [err |-> TRUE, value |-> 0]

ParseAmount(str) == ParseFloat(RemoveCommas(TrimPrefixDollar(str)))

\* the rows of txs dated no later than asOf (in seconds) with a date that
\* parses
FilterUpTo(txs, asOf) ==
    LET Kept(tx) == ParseOK(tx.Date) /\ Seconds(ParseDate(tx.Date)) <= asOf
    IN SelectSeq(txs, Kept)

DepositsUpTo(cash, asOf) ==
    LET counted == FilterUpTo(cash, asOf) IN
    SumSeq([k \in DOMAIN counted |->
              IF counted[k].Type = "Deposit" /\ ~ParseAmount(counted[k].Amount).err
              THEN ParseAmount(counted[k].Amount).value ELSE 0])

NetPremiumsUpTo(optionTxs, stockTxs, asOf, t) ==
    LET list == CHOOSE l \in CalculateOptionPositions(FilterUpTo(optionTxs, asOf),
                                                      stockTxs, t) : TRUE
    IN SumSeq([k \in DOMAIN list |-> list[k].NetPremium])

RealizedPnLUpTo(stockTxs, asOf) ==
    LET list == CHOOSE l \in CalculateAllPositions(FilterUpTo(stockTxs, asOf), <<>>) : TRUE
    IN SumSeq([k \in DOMAIN list |->
                 IF list[k].Type = "closed" THEN list[k].RealizedPnL ELSE 0])

\* asOf in seconds; t is time.Now() of the nested CalculateOptionPositions
CalculatePortfolioValueAsOf(cash, optionTxs, stockTxs, asOf, t) ==
    DepositsUpTo(cash, asOf) + NetPremiumsUpTo(optionTxs, stockTxs, asOf, t)
        + RealizedPnLUpTo(stockTxs, asOf)

(***************************************************************************)
(* CalculateTimeWeightedReturn.  A float64 return is an exact fraction in  *)
(* lowest terms.                                                           *)
(***************************************************************************)
MaxCashTx == 3

RECURSIVE GCD(_, _)
GCD(a, b) == IF b = 0 THEN a ELSE GCD(b, a % b)

\* the same value with a positive denominator, in lowest terms
Reduced(r) ==
    LET g == GCD(Abs(r[1]), Abs(r[2]))
        sign == IF r[2] < 0 THEN -1 ELSE 1
    IN IF g = 0 THEN r
       ELSE Ratio(sign * (r[1] \div g), Abs(r[2]) \div g)

RatioMul(a, b) == Reduced(Ratio(a[1] * b[1], a[2] * b[2]))

RatioAdd(a, b) == Reduced(Ratio(a[1] * b[2] + b[1] * a[2], a[2] * b[2]))

One == Ratio(1, 1)

\* option and stock files of the runs: none, a put sold on day 2 for a net
\* premium of 100, a purchase on day 4 sold on day 5 at a loss of 200
StoP4 == OptTx(2, "Sell to Open", "X", "Put", 50, 9, 1, 100, 48, 0, "P4", NoNotes)
BuyX1000 == StockTx(4, "Buy", "X", 10, 100, 1000, 0)
SellX800 == StockTx(5, "Sell", "X", 10, 80, 800, 0)

OptionFiles == {<<>>, <<StoP4>>}
StockFiles == {<<>>, <<BuyX1000, SellX800>>}

ReturnNowChoices == {ParseDate(5), ParseDate(6) + 12}

\* the Deposit rows whose date and amount parse, as CashFlowEvents; Date is
\* the parsed instant in seconds
RECURSIVE ParsedDeposits(_)
ParsedDeposits(cash) ==
    IF cash = <<>> THEN <<>>
    ELSE LET t == Head(cash)
             rest == ParsedDeposits(Tail(cash))
         IN IF /\ t.Type = "Deposit"
               /\ ParseOK(t.Date)
               /\ ~ParseAmount(t.Amount).err
            THEN <<[Date |-> Seconds(ParseDate(t.Date)),
                    Amount |-> ParseAmount(t.Amount).value]>> \o rest
            ELSE rest

\* sort.Slice by Date.Before: events of one instant may come out in any
\* order, and the consolidation that follows adds them up
RECURSIVE InsertByDate(_, _)
InsertByDate(sorted, cf) ==
    IF sorted = <<>> THEN <<cf>>
    ELSE IF cf.Date < Head(sorted).Date THEN <<cf>> \o sorted
    ELSE <<Head(sorted)>> \o InsertByDate(Tail(sorted), cf)

RECURSIVE SortByDate(_)
SortByDate(flows) ==
    IF flows = <<>> THEN <<>>
    ELSE InsertByDate(SortByDate(SubSeq(flows, 1, Len(flows) - 1)), flows[Len(flows)])

\* Date.Format("2006-01-02") as a day number
FormatDay(instant) == instant \div (SecondsPerHour * HoursPerDay)

\* same-day deposits merged into one event, over a sorted non-empty list
RECURSIVE Consolidate(_, _, _)
Consolidate(flows, currentDate, currentAmount) ==
    IF flows = <<>> THEN <<[Date |-> currentDate, Amount |-> currentAmount]>>
    ELSE LET cf == Head(flows) IN
         IF FormatDay(cf.Date) = FormatDay(currentDate)
         THEN Consolidate(Tail(flows), currentDate, currentAmount + cf.Amount)
         ELSE <<[Date |-> currentDate, Amount |-> currentAmount]>>
                 \o Consolidate(Tail(flows), cf.Date, cf.Amount)

ConsolidatedCashFlows(cash) ==
    LET sorted == SortByDate(ParsedDeposits(cash))
    IN Consolidate(sorted, sorted[1].Date, 0)

AtDepositDate(date) == date

\* cashFlows[i].Date.Add(-1 * time.Second)
BeforeDepositDate(date) == date - 1

PeriodReturn(start, end) == Reduced(Ratio(end - start, start))

WithPeriodReturnUnguarded(returns, start, end) ==
    Append(returns, PeriodReturn(start, end))

\* periodReturns after a period from start to end
WithPeriodReturn(returns, start, end) ==
    IF start > 0 THEN Append(returns, PeriodReturn(start, end)) ELSE returns

RECURSIVE SumOfReturns(_)
SumOfReturns(returns) ==
    IF returns = <<>> THEN ZeroRatio
    ELSE RatioAdd(Head(returns), SumOfReturns(Tail(returns)))

\* cumulativeTWR after the loop over periodReturns, before the final - 1.0
RECURSIVE Linked(_)
Linked(returns) ==
    IF returns = <<>> THEN One
    ELSE RatioMul(RatioAdd(One, returns[Len(returns)]),
                  Linked(SubSeq(returns, 1, Len(returns) - 1)))

CumulativeBySum(returns) == SumOfReturns(returns)

CumulativeReturn(returns) == RatioAdd(Linked(returns), Ratio(-1, 1))

\* 365.0 / daysActive, with daysActive the hours since the first deposit
\* over 24, replaced by 1 when not positive
AnnualizingExponent(firstDate, t) ==
    LET hoursActive == t - (firstDate \div SecondsPerHour)
    IN IF hoursActive <= 0 THEN Ratio(365, 1)
       ELSE Reduced(Ratio(365 * HoursPerDay, hoursActive))

ReturnInit ==
    /\ transactions \in StockFiles
    /\ stockPrices = <<>>
    /\ txIdx = 1
    /\ symbolLots = [s \in Symbols |-> <<>>]
    /\ positions = <<>>
    /\ pc = "idle"
    /\ optionTransactions \in OptionFiles
    /\ stockCostBasis = <<>>
    /\ now \in ReturnNowChoices
    /\ optIdx = 1
    /\ positionMap = <<>>
    /\ optionPositions = <<>>
    /\ opc = "idle"
    /\ AnalyticsIdle
    /\ ToolIdle
    /\ cashTransactions \in SeqsUpTo(CashTxs, MaxCashTx)
    /\ cashFlows = <<>>
    /\ flowIdx = 1
    /\ startValue = 0
    /\ periodReturns = <<>>
    /\ cumulativeTWR = ZeroRatio
    /\ annualizedTWR = [Base |-> One, Exponent |-> One]
    /\ tpc = "collect"

ReturnFixed ==
    /\ UNCHANGED <<stockVars, optionVars, analyticsVars, toolVars>>
    /\ UNCHANGED cashTransactions

\* no deposit parses: return 0, 0
ReturnNoDeposits ==
    /\ tpc = "collect"
    /\ ParsedDeposits(cashTransactions) = <<>>
    /\ cumulativeTWR' = ZeroRatio
    /\ annualizedTWR' = [Base |-> One, Exponent |-> One]
    /\ tpc' = "done"
    /\ UNCHANGED <<cashFlows, flowIdx, startValue, periodReturns>>
    /\ ReturnFixed

CollectCashFlows ==
    /\ tpc = "collect"
    /\ ParsedDeposits(cashTransactions) # <<>>
    /\ cashFlows' = ConsolidatedCashFlows(cashTransactions)
    /\ startValue' = cashFlows'[1].Amount
    /\ flowIdx' = 2
    /\ tpc' = "periods"
    /\ UNCHANGED <<periodReturns, cumulativeTWR, annualizedTWR>>
    /\ ReturnFixed

PeriodBeforeDeposit ==
    /\ tpc = "periods"
    /\ flowIdx <= Len(cashFlows)
    /\ LET endValue ==
             CalculatePortfolioValueAsOf(cashTransactions, optionTransactions,
                                         transactions,
                                         BeforeDepositDate(cashFlows[flowIdx].Date),
                                         now)
       IN /\ periodReturns' = WithPeriodReturn(periodReturns, startValue, endValue)
          /\ startValue' = endValue + cashFlows[flowIdx].Amount
    /\ flowIdx' = flowIdx + 1
    /\ UNCHANGED <<cashFlows, cumulativeTWR, annualizedTWR, tpc>>
    /\ ReturnFixed

FinalPeriod ==
    /\ tpc = "periods"
    /\ flowIdx > Len(cashFlows)
    /\ LET currentValue ==
             CalculatePortfolioValueAsOf(cashTransactions, optionTransactions,
                                         transactions, Seconds(now), now)
       IN periodReturns' = WithPeriodReturn(periodReturns, startValue, currentValue)
    /\ tpc' = "link"
    /\ UNCHANGED <<cashFlows, flowIdx, startValue, cumulativeTWR, annualizedTWR>>
    /\ ReturnFixed

\* the results: cumulativeTWR * 100, and annualizedTWR as the operands of
\* (math.Pow(Base, Exponent) - 1.0) * 100
LinkReturns ==
    /\ tpc = "link"
    /\ cumulativeTWR' = RatioMul(CumulativeReturn(periodReturns), Ratio(100, 1))
    /\ annualizedTWR' =
         [Base |-> RatioAdd(One, CumulativeReturn(periodReturns)),
          Exponent |-> AnnualizingExponent(cashFlows[1].Date, now)]
    /\ tpc' = "done"
    /\ UNCHANGED <<cashFlows, flowIdx, startValue, periodReturns>>
    /\ ReturnFixed

ReturnNext ==
    ReturnNoDeposits \/ CollectCashFlows \/ PeriodBeforeDeposit \/ FinalPeriod
        \/ LinkReturns

SpecReturn == ReturnInit /\ [][ReturnNext]_vars

(***************************************************************************)
(* CalculateAnalytics (TotalActiveCapital and DailyReturns) and            *)
(* CalculatePositionDetails, over the option and stock files               *)
(***************************************************************************)
MaxFileOptTx == 2
MaxFileTx == 2

StoP5 == OptTx(3, "Sell to Open", "X", "Call", 30, 9, 1, 20, 24, 0, "P5", NoNotes)

BtcP1AtLoss == OptTx(3, "Buy to Close", "X", "Put", 50, 5, 1, -150, 49, 1, "P1", NoNotes)

FileOptionTxs == {StoP1, StoP2, StoP3, StoP5, BtcP1, BtcP1AtLoss, AssignedP2}
FileStockTxs == {BuyX10, BuyY4, SellX3, SellY1}

AnalyticsNowChoices == {ParseDate(4), ParseDate(5) + 12}

RatioLess(a, b) == a[1] * b[2] < b[1] * a[2]

RECURSIVE SumRatios(_)
SumRatios(values) ==
    IF values = <<>> THEN ZeroRatio
    ELSE RatioAdd(Head(values), SumRatios(Tail(values)))

\* the option position adds its Capital to TotalActiveCapital
AddsToOptionsActiveCapital(pos) ==
    Positive(pos.Capital) /\ pos.Status = "Open"

AddsToActiveCapital(pos) ==
    Positive(pos.Capital) /\ pos.Status = "Open" /\ pos.OptionType = "Put"

\* Analytics.TotalActiveCapital after both loops
TotalActiveCapital(optionList, stockTxs, stockList) ==
    LET puts == SumRatios([k \in DOMAIN optionList |->
                             IF AddsToActiveCapital(optionList[k])
                             THEN optionList[k].Capital ELSE ZeroRatio])
        openStocks == IF Len(stockTxs) > 0
                      THEN SumSeq([k \in DOMAIN stockList |->
                                     IF stockList[k].Type = "open"
                                     THEN stockList[k].CostBasis ELSE 0])
                      ELSE 0
    IN RatioAdd(puts, Ratio(openStocks, 1))

\* time.Time.Format("2006-01-02") of an instant of the hour clock
FormatDate(t) == t \div HoursPerDay

NewDailyReturn(dateStr) ==
    [Date |-> dateStr, Premiums |-> 0, StockGains |-> 0, TotalReturns |-> 0,
     PremiumDetails |-> <<>>, StockDetails |-> <<>>]

\* a new record whether or not the date has one
FreshDailyEntry(dailyMap, dateStr) == NewDailyReturn(dateStr)

DailyEntry(dailyMap, dateStr) ==
    IF dateStr \in DOMAIN dailyMap THEN dailyMap[dateStr] ELSE NewDailyReturn(dateStr)

PremiumDateAtClose(pos) == pos.CloseDate

\* the date an option position's net premium is booked on
PremiumDate(pos) == pos.OpenDate

RECURSIVE WithPremiums(_, _)
WithPremiums(dailyMap, optionList) ==
    IF optionList = <<>> THEN dailyMap
    ELSE LET pos == Head(optionList)
             dateStr == PremiumDate(pos)
             entry == DailyEntry(dailyMap, dateStr)
         IN IF dateStr # NoDate
            THEN WithPremiums(
                   (dateStr :> [entry EXCEPT
                                  !.Premiums = @ + pos.NetPremium,
                                  !.PremiumDetails =
                                      Append(@, [Symbol |-> pos.Symbol,
                                                 Type |-> pos.OptionType,
                                                 Amount |-> pos.NetPremium])])
                       @@ dailyMap,
                   Tail(optionList))
            ELSE WithPremiums(dailyMap, Tail(optionList))

\* the close date, re-formatted when it parses
GainDate(pos) ==
    IF ParseOK(pos.CloseDate) THEN FormatDate(ParseDate(pos.CloseDate))
    ELSE pos.CloseDate

RECURSIVE WithStockGains(_, _)
WithStockGains(dailyMap, stockList) ==
    IF stockList = <<>> THEN dailyMap
    ELSE LET pos == Head(stockList)
             dateStr == GainDate(pos)
             entry == DailyEntry(dailyMap, dateStr)
         IN IF pos.Type = "closed"
            THEN WithStockGains(
                   (dateStr :> [entry EXCEPT
                                  !.StockGains = @ + pos.RealizedPnL,
                                  !.StockDetails =
                                      Append(@, [Symbol |-> pos.Symbol,
                                                 Type |-> "Stock",
                                                 Amount |-> pos.RealizedPnL])])
                       @@ dailyMap,
                   Tail(stockList))
            ELSE WithStockGains(dailyMap, Tail(stockList))

SwapAt(list, i, j) == [list EXCEPT ![i] = list[j], ![j] = list[i]]

\* the inner loop over j of the sort by date, from j on
RECURSIVE SortDailyInner(_, _, _)
SortDailyInner(list, i, j) ==
    IF j > Len(list) THEN list
    ELSE SortDailyInner(IF list[i].Date > list[j].Date THEN SwapAt(list, i, j)
                        ELSE list,
                        i, j + 1)

RECURSIVE SortDaily(_, _)
SortDaily(list, i) ==
    IF i >= Len(list) THEN list
    ELSE SortDaily(SortDailyInner(list, i, i + 1), i + 1)

\* the lists a call can return: stockList is what its CalculateAllPositions
\* returned and the range over dailyMap takes some order
CalculateDailyReturnsNew(optionList, stockList) ==
    LET dailyMap == WithStockGains(WithPremiums(<<>>, optionList), stockList)
    IN {SortDaily([k \in DOMAIN order |->
                     [dailyMap[order[k]] EXCEPT
                        !.TotalReturns = dailyMap[order[k]].Premiums
                                           + dailyMap[order[k]].StockGains]], 1) :
           order \in Orders(DOMAIN dailyMap)}

\* stocksWithCalls: symbol -> cost basis of its open stock Position, for the
\* symbols with an open Call
StocksWithCalls(optionList, stockList) ==
    LET covered == {sym \in Symbols :
                      /\ \E k \in DOMAIN optionList :
                            /\ optionList[k].Status = "Open"
                            /\ optionList[k].OptionType = "Call"
                            /\ optionList[k].Symbol = sym
                      /\ \E k \in DOMAIN stockList :
                            stockList[k].Type = "open" /\ stockList[k].Symbol = sym}
        FirstOpen(sym) == CHOOSE k \in DOMAIN stockList :
                            /\ stockList[k].Type = "open" /\ stockList[k].Symbol = sym
                            /\ \A j \in 1..(k - 1) :
                                  ~(stockList[j].Type = "open" /\ stockList[j].Symbol = sym)
    IN [sym \in covered |-> stockList[FirstOpen(sym)].CostBasis]

NeverCoveredCall(symbol, withCalls) == FALSE

hasCoveredCall(symbol, withCalls) == symbol \in DOMAIN withCalls

RECURSIVE StockDetailsOf(_, _)
StockDetailsOf(stockList, withCalls) ==
    IF stockList = <<>> THEN <<>>
    ELSE LET pos == Head(stockList)
             rest == StockDetailsOf(Tail(stockList), withCalls)
         IN IF pos.Type = "open" /\ ~hasCoveredCall(pos.Symbol, withCalls)
            THEN <<[Symbol |-> pos.Symbol, Type |-> "Stock",
                    Amount |-> Ratio(pos.CostBasis, 1)]>> \o rest
            ELSE rest

RECURSIVE PutDetailsOf(_)
PutDetailsOf(optionList) ==
    IF optionList = <<>> THEN <<>>
    ELSE LET opt == Head(optionList)
             rest == PutDetailsOf(Tail(optionList))
         IN IF opt.Status = "Open" /\ opt.OptionType = "Put"
            THEN <<[Symbol |-> opt.Symbol, Type |-> "Put", Amount |-> opt.Capital]>>
                    \o rest
            ELSE rest

\* the inner loop over j of the sort by amount, descending
RECURSIVE SortDetailsInner(_, _, _)
SortDetailsInner(list, i, j) ==
    IF j > Len(list) THEN list
    ELSE SortDetailsInner(IF RatioLess(list[i].Amount, list[j].Amount)
                          THEN SwapAt(list, i, j) ELSE list,
                          i, j + 1)

RECURSIVE SortDetails(_, _)
SortDetails(list, i) ==
    IF i >= Len(list) THEN list
    ELSE SortDetails(SortDetailsInner(list, i, i + 1), i + 1)

\* the lists a call can return from the positions it computed, the range
\* over stocksWithCalls taking some order
CalculatePositionDetails(optionList, stockList) ==
    LET withCalls == StocksWithCalls(optionList, stockList) IN
    {SortDetails([k \in DOMAIN order |->
                    [Symbol |-> order[k], Type |-> "Call",
                     Amount |-> Ratio(withCalls[order[k]], 1)]]
                   \o StockDetailsOf(stockList, withCalls)
                   \o PutDetailsOf(optionList), 1) :
        order \in Orders(DOMAIN withCalls)}

AnalyticsInit ==
    /\ ReturnIdle
    /\ ToolIdle
    /\ transactions \in SeqsUpTo(FileStockTxs, MaxFileTx)
    /\ stockPrices = <<>>
    /\ txIdx = 1
    /\ symbolLots = [s \in Symbols |-> <<>>]
    /\ positions = <<>>
    /\ pc = "idle"
    /\ optionTransactions \in SeqsUpTo(FileOptionTxs, MaxFileOptTx)
    /\ stockCostBasis = <<>>
    /\ now \in AnalyticsNowChoices
    /\ optIdx = 1
    /\ positionMap = <<>>
    /\ optionPositions = <<>>
    /\ opc = "idle"
    /\ totalActiveCapital = ZeroRatio
    /\ dailyReturns = <<>>
    /\ positionDetails = <<>>
    /\ apc = "analytics"

AnalyticsFixed ==
    /\ UNCHANGED <<transactions, stockPrices, txIdx, symbolLots, pc>>
    /\ UNCHANGED <<optionTransactions, stockCostBasis, now, optIdx, positionMap, opc>>
    /\ UNCHANGED <<returnVars, toolVars>>

\* one call of CalculateAnalytics: optionPositions and positions are the
\* lists it computed, CalculateDailyReturnsNew computing the Positions again
CalculateAnalyticsCall ==
    /\ apc = "analytics"
    /\ optionPositions' \in CalculateOptionPositions(optionTransactions,
                                                     transactions, now)
    /\ positions' \in CalculateAllPositions(transactions, stockPrices)
    /\ totalActiveCapital' =
          TotalActiveCapital(optionPositions', transactions, positions')
    /\ \E again \in CalculateAllPositions(transactions, stockPrices) :
          dailyReturns' \in CalculateDailyReturnsNew(optionPositions', again)
    /\ apc' = "details"
    /\ UNCHANGED positionDetails
    /\ AnalyticsFixed

\* one call of CalculatePositionDetails, which loads and computes the
\* positions itself
CalculatePositionDetailsCall ==
    /\ apc = "details"
    /\ optionPositions' \in CalculateOptionPositions(optionTransactions,
                                                     transactions, now)
    /\ positions' \in CalculateAllPositions(transactions, stockPrices)
    /\ positionDetails' \in CalculatePositionDetails(optionPositions', positions')
    /\ apc' = "done"
    /\ UNCHANGED <<totalActiveCapital, dailyReturns>>
    /\ AnalyticsFixed

AnalyticsNext == CalculateAnalyticsCall \/ CalculatePositionDetailsCall

SpecAnalytics == AnalyticsInit /\ [][AnalyticsNext]_vars

(***************************************************************************)
(* CalculateSectorExposure                                                 *)
(***************************************************************************)
StoP6 == OptTx(2, "Sell to Open", "Y", "Put", 10, 9, 3, 30, 11, 1, "P6", NoNotes)

SectorOptionTxs == {StoP1, StoP6, StoP3, BtcP1}

\* contents of data/sectors.csv as a map; "" is a row with an empty sector
SectorMaps == {<<>>,
               [s \in {"X"} |-> "Tech"],
               [s \in {"X", "Y"} |-> "Tech"],
               [s \in {"X", "Y"} |-> IF s = "X" THEN "Tech" ELSE "Energy"],
               [s \in {"X", "Y"} |-> IF s = "X" THEN "" ELSE "Other"]}

\* sectorMap[symbol], "Other" when the lookup gives ""
SectorFor(sectors, symbol) ==
    LET sector == IF symbol \in DOMAIN sectors THEN sectors[symbol] ELSE ""
    IN IF sector = "" THEN "Other" ELSE sector

SectorEntry(sectorData, sector) ==
    IF sector \in DOMAIN sectorData THEN sectorData[sector]
    ELSE [Sector |-> sector, Amount |-> ZeroRatio, Positions |-> <<>>]

WithExposure(sectorData, sector, detail) ==
    (sector :> [SectorEntry(sectorData, sector) EXCEPT
                   !.Positions = Append(@, detail),
                   !.Amount = RatioAdd(@, detail.Amount)]) @@ sectorData

RECURSIVE WithStockExposure(_, _, _)
WithStockExposure(sectorData, stockList, sectors) ==
    IF stockList = <<>> THEN sectorData
    ELSE LET pos == Head(stockList) IN
         WithStockExposure(
            IF pos.Type = "open"
            THEN WithExposure(sectorData, SectorFor(sectors, pos.Symbol),
                              [Symbol |-> pos.Symbol, Type |-> "Stock",
                               Amount |-> Ratio(pos.CostBasis, 1)])
            ELSE sectorData,
            Tail(stockList), sectors)

CountsAnyOpenOption(pos) == pos.Status = "Open"

\* the option position is a cash-secured put that is counted
CountsAsCashSecuredPut(pos) == pos.Status = "Open" /\ pos.OptionType = "Put"

RECURSIVE WithPutExposure(_, _, _)
WithPutExposure(sectorData, optionList, sectors) ==
    IF optionList = <<>> THEN sectorData
    ELSE LET pos == Head(optionList) IN
         WithPutExposure(
            IF CountsAsCashSecuredPut(pos)
            THEN WithExposure(sectorData, SectorFor(sectors, pos.Symbol),
                              [Symbol |-> pos.Symbol, Type |-> "Put",
                               Amount |-> pos.Capital])
            ELSE sectorData,
            Tail(optionList), sectors)

\* the entries with a positive amount, in the order the range over the map
\* visits them
RECURSIVE PositiveExposures(_, _)
PositiveExposures(sectorData, order) ==
    IF order = <<>> THEN <<>>
    ELSE LET rest == PositiveExposures(sectorData, Tail(order)) IN
         IF Positive(sectorData[Head(order)].Amount)
         THEN <<sectorData[Head(order)]>> \o rest
         ELSE rest

\* the inner loop over j of the sort by amount, descending
RECURSIVE SortExposuresInner(_, _, _)
SortExposuresInner(list, i, j) ==
    IF j > Len(list) THEN list
    ELSE SortExposuresInner(IF RatioLess(list[i].Amount, list[j].Amount)
                            THEN SwapAt(list, i, j) ELSE list,
                            i, j + 1)

RECURSIVE SortExposures(_, _)
SortExposures(list, i) ==
    IF i >= Len(list) THEN list
    ELSE SortExposures(SortExposuresInner(list, i, i + 1), i + 1)

\* the lists a call can return from the positions it computed
CalculateSectorExposure(sectors, stockList, optionList) ==
    LET sectorData == WithPutExposure(WithStockExposure(<<>>, stockList, sectors),
                                      optionList, sectors)
    IN {SortExposures(PositiveExposures(sectorData, order), 1) :
           order \in Orders(DOMAIN sectorData)}

SectorInit ==
    /\ ReturnIdle
    /\ AnalyticsIdle
    /\ PoolIdle
    /\ CashIdle
    /\ transactions \in SeqsUpTo(FileStockTxs, MaxFileTx)
    /\ stockPrices = <<>>
    /\ txIdx = 1
    /\ symbolLots = [s \in Symbols |-> <<>>]
    /\ positions = <<>>
    /\ pc = "idle"
    /\ optionTransactions \in SeqsUpTo(SectorOptionTxs, MaxFileOptTx)
    /\ stockCostBasis = <<>>
    /\ now \in AnalyticsNowChoices
    /\ optIdx = 1
    /\ positionMap = <<>>
    /\ optionPositions = <<>>
    /\ opc = "idle"
    /\ sectorMap = <<>>
    /\ sectorExposures = <<>>
    /\ spc = "sectors"

\* one call of CalculateSectorExposure, which loads the sector file and
\* computes the positions itself
CalculateSectorExposureCall ==
    /\ spc = "sectors"
    /\ sectorMap' \in SectorMaps
    /\ positions' \in CalculateAllPositions(transactions, stockPrices)
    /\ optionPositions' \in CalculateOptionPositions(optionTransactions,
                                                     transactions, now)
    /\ sectorExposures' \in
          CalculateSectorExposure(sectorMap', positions', optionPositions')
    /\ spc' = "done"
    /\ UNCHANGED <<transactions, stockPrices, txIdx, symbolLots, pc>>
    /\ UNCHANGED <<optionTransactions, stockCostBasis, now, optIdx, positionMap, opc>>
    /\ UNCHANGED <<returnVars, analyticsVars, poolVars, cashVars>>

\* a later call, after the sector file may have changed
CalculateSectorExposureAgain ==
    /\ spc = "done"
    /\ spc' = "sectors"
    /\ UNCHANGED <<sectorMap, sectorExposures>>
    /\ UNCHANGED <<stockVars, optionVars, returnVars, analyticsVars, poolVars,
                   cashVars>>

SectorNext == CalculateSectorExposureCall \/ CalculateSectorExposureAgain

SpecSector == SectorInit /\ [][SectorNext]_vars

(***************************************************************************)
(* update-universe: main and its pool of workers.  Indices are 1..N here,  *)
(* 0..N-1 in the program.  The workers are goroutines of one closure and   *)
(* have no identity: a state counts the workers that wait in their range   *)
(* over jobs and holds, for each worker with a job in hand, its position   *)
(* and its result variable.                                                *)
(***************************************************************************)
MaxStocks == 3

Workers == 5

UniverseStock(ticker, name, price, sector) ==
    [Ticker |-> ticker, Name |-> name, Price |-> price, Sector |-> sector]

\* the row of data/universe.csv read into stocks[i]
UniverseRow(i) ==
    IF i % 2 = 1 THEN UniverseStock(<<"A", i>>, <<"Alpha", i>>, 0, "Tech")
    ELSE UniverseStock(<<"B", i>>, <<"Beta", i>>, 7, "")

UniverseFiles == {[i \in 1..n |-> UniverseRow(i)] : n \in 0..MaxStocks}

\* what client.GetQuote can give for the stock at index i: an error, a quote
\* with price 0, a quote with a price
QuoteOutcomes(i) == {[err |-> TRUE, price |-> 0],
                     [err |-> FALSE, price |-> 0],
                     [err |-> FALSE, price |-> 10 + i]}

\* updateResult{index: i}
NewResult(i) == [index |-> i, price |-> 0, success |-> FALSE, err |-> FALSE]

\* the result a worker builds from what GetQuote returned
ResultOfQuote(result, quote) ==
    IF quote.err THEN [result EXCEPT !.err = TRUE, !.success = FALSE]
    ELSE IF quote.price = 0 THEN [result EXCEPT !.err = TRUE, !.success = FALSE]
    ELSE [result EXCEPT !.price = quote.price, !.success = TRUE]

AcceptsAnyResult(result) == TRUE

\* main overwrites the price with the result's
AcceptsResult(result) == result.success

WaitReturnsAtOnce == TRUE

\* wg.Wait() returns
WaitReturns == wg = 0

\* a worker at position p with result variable r
Worker(p, r) == [pc |-> p, result |-> r]

WorkersAt(p) == {wk \in BagToSet(working) : wk.pc = p}

PoolInit ==
    /\ StockIdle
    /\ OptionIdle
    /\ ReturnIdle
    /\ AnalyticsIdle
    /\ SectorIdle
    /\ CashIdle
    /\ universeFile \in UniverseFiles
    /\ stocks = universeFile
    /\ jobs = <<>>
    /\ jobsClosed = FALSE
    /\ results = <<>>
    /\ resultsClosed = FALSE
    /\ wg = Workers
    /\ waiting = Workers
    /\ working = EmptyBag
    /\ mainPc = "jobs"
    /\ jobIdx = 1
    /\ successCount = 0
    /\ errorCount = 0
    /\ panicked = FALSE
    /\ taken = [i \in DOMAIN universeFile |-> 0]
    /\ quoted = [i \in DOMAIN universeFile |-> {}]
    /\ delivered = [i \in DOMAIN universeFile |-> 0]

PoolFixed ==
    UNCHANGED <<stockVars, optionVars, returnVars, analyticsVars, sectorVars, cashVars>>

\* for i := range jobs: a waiting worker receives a job
WorkerReceive ==
    /\ ~panicked
    /\ jobs # <<>>
    /\ waiting > 0
    /\ waiting' = waiting - 1
    /\ working' = working (+) SetToBag({Worker("quote", NewResult(Head(jobs)))})
    /\ taken' = [taken EXCEPT ![Head(jobs)] = @ + 1]
    /\ jobs' = Tail(jobs)
    /\ UNCHANGED <<universeFile, stocks, jobsClosed, results, resultsClosed, wg,
                   mainPc, jobIdx, successCount, errorCount, panicked,
                   quoted, delivered>>
    /\ PoolFixed

\* client.GetQuote(stocks[i].Ticker) returns and the result is filled in
WorkerGetQuote ==
    /\ ~panicked
    /\ \E wk \in WorkersAt("quote") :
         \E quote \in QuoteOutcomes(wk.result.index) :
            /\ working' = (working (-) SetToBag({wk}))
                             (+) SetToBag({Worker("send", ResultOfQuote(wk.result, quote))})
            /\ quoted' = [quoted EXCEPT ![wk.result.index] = @ \cup {quote}]
    /\ UNCHANGED <<universeFile, stocks, jobs, jobsClosed, results, resultsClosed,
                   wg, waiting, mainPc, jobIdx, successCount, errorCount, panicked,
                   taken, delivered>>
    /\ PoolFixed

\* results <- result, which waits while the buffer is full and panics on a
\* closed channel; the worker then goes back to the range over jobs (the
\* time.Sleep after a success touches nothing shared)
WorkerSend ==
    /\ ~panicked
    /\ \E wk \in WorkersAt("send") :
         /\ resultsClosed \/ Len(results) < Len(stocks)
         /\ IF resultsClosed
            THEN /\ panicked' = TRUE
                 /\ UNCHANGED <<results, waiting, working>>
            ELSE /\ results' = Append(results, wk.result)
                 /\ working' = working (-) SetToBag({wk})
                 /\ waiting' = waiting + 1
                 /\ UNCHANGED panicked
    /\ UNCHANGED <<universeFile, stocks, jobs, jobsClosed, resultsClosed, wg,
                   mainPc, jobIdx, successCount, errorCount, taken, quoted,
                   delivered>>
    /\ PoolFixed

\* a worker's range over jobs ends, the channel being closed and drained,
\* and its deferred wg.Done() runs
WorkerExit ==
    /\ ~panicked
    /\ jobs = <<>>
    /\ jobsClosed
    /\ waiting > 0
    /\ waiting' = waiting - 1
    /\ wg' = wg - 1
    /\ UNCHANGED <<universeFile, stocks, jobs, jobsClosed, results, resultsClosed,
                   working, mainPc, jobIdx, successCount, errorCount,
                   panicked, taken, quoted, delivered>>
    /\ PoolFixed

\* jobs <- i
MainSendJob ==
    /\ ~panicked
    /\ mainPc = "jobs"
    /\ jobIdx <= Len(stocks)
    /\ Len(jobs) < Len(stocks)
    /\ jobs' = Append(jobs, jobIdx)
    /\ jobIdx' = jobIdx + 1
    /\ UNCHANGED <<universeFile, stocks, jobsClosed, results, resultsClosed, wg,
                   waiting, working, mainPc, successCount, errorCount,
                   panicked, taken, quoted, delivered>>
    /\ PoolFixed

\* close(jobs), and the goroutine that waits for the workers is started
MainCloseJobs ==
    /\ ~panicked
    /\ mainPc = "jobs"
    /\ jobIdx > Len(stocks)
    /\ jobsClosed' = TRUE
    /\ mainPc' = "results"
    /\ UNCHANGED <<universeFile, stocks, jobs, results, resultsClosed, wg,
                   waiting, working, jobIdx, successCount, errorCount,
                   panicked, taken, quoted, delivered>>
    /\ PoolFixed

\* the waiting goroutine: wg.Wait() returns and it closes results
CloseResults ==
    /\ ~panicked
    /\ jobsClosed
    /\ ~resultsClosed
    /\ WaitReturns
    /\ resultsClosed' = TRUE
    /\ UNCHANGED <<universeFile, stocks, jobs, jobsClosed, results, wg,
                   waiting, working, mainPc, jobIdx, successCount,
                   errorCount, panicked, taken, quoted, delivered>>
    /\ PoolFixed

\* for result := range results: one result is received and handled
MainReceiveResult ==
    /\ ~panicked
    /\ mainPc = "results"
    /\ results # <<>>
    /\ LET result == Head(results)
           i == result.index
       IN /\ IF AcceptsResult(result)
             THEN /\ stocks' = [stocks EXCEPT ![i].Price = result.price]
                  /\ successCount' = successCount + 1
                  /\ UNCHANGED errorCount
             ELSE /\ errorCount' = errorCount + 1
                  /\ UNCHANGED <<stocks, successCount>>
          /\ delivered' = [delivered EXCEPT ![i] = @ + 1]
    /\ results' = Tail(results)
    /\ UNCHANGED <<universeFile, jobs, jobsClosed, resultsClosed, wg, waiting,
                   working, mainPc, jobIdx, panicked, taken, quoted>>
    /\ PoolFixed

\* the range over results ends: the channel is closed and drained
MainRangeEnds ==
    /\ ~panicked
    /\ mainPc = "results"
    /\ results = <<>>
    /\ resultsClosed
    /\ mainPc' = "write"
    /\ UNCHANGED <<universeFile, stocks, jobs, jobsClosed, results, resultsClosed,
                   wg, waiting, working, jobIdx, successCount, errorCount,
                   panicked, taken, quoted, delivered>>
    /\ PoolFixed

\* writeUniverse("data/universe.csv", stocks), which can fail to create the file
MainWriteUniverse ==
    /\ ~panicked
    /\ mainPc = "write"
    /\ universeFile' \in {stocks, universeFile}
    /\ mainPc' = "done"
    /\ UNCHANGED <<stocks, jobs, jobsClosed, results, resultsClosed, wg, waiting,
                   working, jobIdx, successCount, errorCount, panicked,
                   taken, quoted, delivered>>
    /\ PoolFixed

PoolNext ==
    \/ WorkerReceive
    \/ WorkerGetQuote
    \/ WorkerSend
    \/ WorkerExit
    \/ MainSendJob
    \/ MainCloseJobs
    \/ CloseResults
    \/ MainReceiveResult
    \/ MainRangeEnds
    \/ MainWriteUniverse

SpecPool == PoolInit /\ [][PoolNext]_vars

\* every goroutine that can take a step is scheduled in the end; no step
\* can be repeated for ever, so it is enough that some step is taken
SpecPoolLive == SpecPool /\ WF_vars(PoolNext)

(***************************************************************************)
(* Dry powder: web.CalculateCashPosition on the Analytics of               *)
(* web.CalculateAnalytics, and analysis.getDryPowder                       *)
(***************************************************************************)
CashOptionTxs == {StoP1, BtcP1AtLoss, StoP3}

CashFiles == {<<>>, <<Dep1000>>, <<Dep1000, Withdraw50, Dep100>>, <<DepNoAmount, Dep900>>}

CalculateTotalDeposits(cash) ==
    SumSeq([k \in DOMAIN cash |->
              IF cash[k].Type = "Deposit" /\ ~ParseAmount(cash[k].Amount).err
              THEN ParseAmount(cash[k].Amount).value ELSE 0])

RatioSub(a, b) == RatioAdd(a, Ratio(-b[1], b[2]))

\* Analytics.TotalPremiums
TotalPremiums(optionList) ==
    SumSeq([k \in DOMAIN optionList |->
              IF optionList[k].NetPremium > 0 THEN optionList[k].NetPremium ELSE 0])

\* Analytics.TotalStockProfitLoss
TotalStockProfitLoss(stockTxs, stockList) ==
    IF Len(stockTxs) > 0
    THEN SumSeq([k \in DOMAIN stockList |->
                   IF stockList[k].Type = "closed" THEN stockList[k].RealizedPnL ELSE 0])
    ELSE 0

\* the fields of the Analytics of CalculateAnalytics that CalculateCashPosition reads
CalculateAnalytics(cash, optionList, stockTxs, stockList) ==
    [TotalDeposits |-> CalculateTotalDeposits(cash),
     TotalPremiums |-> TotalPremiums(optionList),
     TotalStockProfitLoss |-> TotalStockProfitLoss(stockTxs, stockList),
     TotalActiveCapital |-> TotalActiveCapital(optionList, stockTxs, stockList)]

\* ActiveCapital and DryPowder of the CashPosition (WiseBalance is a cell of
\* data/wise.csv and enters neither)
CalculateCashPosition(analytics) ==
    [ActiveCapital |-> analytics.TotalActiveCapital,
     DryPowder |-> RatioSub(Ratio(analytics.TotalDeposits + analytics.TotalPremiums
                                    + analytics.TotalStockProfitLoss, 1),
                            analytics.TotalActiveCapital)]

getDryPowder(cash, optionList, stockList) ==
    LET totalDeposits == CalculateTotalDeposits(cash)
        totalPremiums == SumSeq([k \in DOMAIN optionList |-> optionList[k].NetPremium])
        totalStockPL ==
            SumSeq([k \in DOMAIN stockList |->
                      IF stockList[k].Type = "closed" THEN stockList[k].RealizedPnL ELSE 0])
        stockCapital ==
            SumSeq([k \in DOMAIN stockList |->
                      IF stockList[k].Type = "open" THEN stockList[k].CostBasis ELSE 0])
        putCapital ==
            SumRatios([k \in DOMAIN optionList |->
                         IF optionList[k].Status = "Open" /\ optionList[k].OptionType = "Put"
                         THEN optionList[k].Capital ELSE ZeroRatio])
        activeCapital == RatioAdd(Ratio(stockCapital, 1), putCapital)
    IN RatioSub(Ratio(totalDeposits + totalPremiums + totalStockPL, 1), activeCapital)

CashInit ==
    /\ AnalyticsIdle
    /\ SectorIdle
    /\ PoolIdle
    /\ transactions \in SeqsUpTo(FileStockTxs, MaxFileTx)
    /\ stockPrices = <<>>
    /\ txIdx = 1
    /\ symbolLots = [s \in Symbols |-> <<>>]
    /\ positions = <<>>
    /\ pc = "idle"
    /\ optionTransactions \in SeqsUpTo(CashOptionTxs, MaxFileOptTx)
    /\ stockCostBasis = <<>>
    /\ now \in AnalyticsNowChoices
    /\ optIdx = 1
    /\ positionMap = <<>>
    /\ optionPositions = <<>>
    /\ opc = "idle"
    /\ cashTransactions \in CashFiles
    /\ cashFlows = <<>>
    /\ flowIdx = 1
    /\ startValue = 0
    /\ periodReturns = <<>>
    /\ cumulativeTWR = ZeroRatio
    /\ annualizedTWR = [Base |-> Ratio(1, 1), Exponent |-> Ratio(1, 1)]
    /\ tpc = "idle"
    /\ cashPosition = [ActiveCapital |-> ZeroRatio, DryPowder |-> ZeroRatio]
    /\ dryPowder = ZeroRatio
    /\ cpc = "web"

CashFixed ==
    /\ UNCHANGED <<transactions, stockPrices, txIdx, symbolLots, pc>>
    /\ UNCHANGED <<optionTransactions, stockCostBasis, now, optIdx, positionMap, opc>>
    /\ UNCHANGED <<returnVars, analyticsVars, sectorVars, poolVars>>

\* the web side: CalculateAnalytics and CalculateCashPosition on its result
CalculateCashPositionCall ==
    /\ cpc = "web"
    /\ optionPositions' \in CalculateOptionPositions(optionTransactions,
                                                     transactions, now)
    /\ positions' \in CalculateAllPositions(transactions, stockPrices)
    /\ cashPosition' =
          CalculateCashPosition(CalculateAnalytics(cashTransactions, optionPositions',
                                                   transactions, positions'))
    /\ cpc' = "analysis"
    /\ UNCHANGED dryPowder
    /\ CashFixed

\* the analysis side, on the same files at the same time
getDryPowderCall ==
    /\ cpc = "analysis"
    /\ optionPositions' \in CalculateOptionPositions(optionTransactions,
                                                     transactions, now)
    /\ positions' \in CalculateAllPositions(transactions, stockPrices)
    /\ dryPowder' = getDryPowder(cashTransactions, optionPositions', positions')
    /\ cpc' = "done"
    /\ UNCHANGED cashPosition
    /\ CashFixed

CashNext == CalculateCashPositionCall \/ getDryPowderCall

SpecCash == CashInit /\ [][CashNext]_vars

(***************************************************************************)
(* Properties of CalculateAllPositions.  The quantities below are computed *)
(* from the input transaction list alone.                                  *)
(***************************************************************************)
IsTx(k, type, s) ==
    transactions[k].Type = type /\ transactions[k].Symbol = s

\* shares of s held after the first k transactions, a Sell taking what is there
RECURSIVE Held(_, _)
Held(s, k) ==
    IF k = 0 THEN 0
    ELSE IF IsTx(k, "Buy", s) THEN Held(s, k - 1) + transactions[k].Shares
    ELSE IF IsTx(k, "Sell", s)
         THEN (IF Held(s, k - 1) > transactions[k].Shares
               THEN Held(s, k - 1) - transactions[k].Shares ELSE 0)
    ELSE Held(s, k - 1)

TxIndices == 1..Len(transactions)

SellsWithinHoldings(s) ==
    \A k \in TxIndices : IsTx(k, "Sell", s) => transactions[k].Shares <= Held(s, k - 1)

EverySellFindsALot(s) ==
    \A k \in TxIndices : IsTx(k, "Sell", s) => Held(s, k - 1) > 0

RECURSIVE SumOver(_, _)
SumOver(S, f) ==
    IF S = {} THEN 0
    ELSE LET x == CHOOSE y \in S : TRUE IN f[x] + SumOver(S \ {x}, f)

SharesBought(s) ==
    SumOver({k \in TxIndices : IsTx(k, "Buy", s)},
            [k \in TxIndices |-> transactions[k].Shares])

CostBought(s) ==
    SumOver({k \in TxIndices : IsTx(k, "Buy", s)},
            [k \in TxIndices |-> transactions[k].Amount + transactions[k].Commission])

ProceedsSold(s) ==
    SumOver({k \in TxIndices : IsTx(k, "Sell", s)},
            [k \in TxIndices |-> transactions[k].Amount - transactions[k].Commission])

PositionIndices(s, type) ==
    {j \in DOMAIN positions : positions[j].Symbol = s /\ positions[j].Type = type}

PositionShares(s, type) ==
    SumOver(PositionIndices(s, type), [j \in DOMAIN positions |-> positions[j].Shares])

RealizedPnLOf(s) ==
    SumOver(PositionIndices(s, "closed"),
            [j \in DOMAIN positions |-> positions[j].RealizedPnL])

LotShares(s) ==
    SumOver(DOMAIN symbolLots[s], [j \in DOMAIN symbolLots[s] |-> symbolLots[s][j].Shares])

LotCostBasis(s) ==
    SumOver(DOMAIN symbolLots[s],
            [j \in DOMAIN symbolLots[s] |-> symbolLots[s][j].CostBasis])

SellStep ==
    /\ pc = "loop"
    /\ txIdx <= Len(transactions)
    /\ transactions[txIdx].Type = "Sell"
    /\ txIdx' = txIdx + 1

\* new is old with its first lots removed whole and at most the next one
\* reduced, the lots behind it untouched, and min(sold, held) shares gone
ConsumedFromTheFront(old, new, sold, held, left) ==
    \E k \in 0..Len(old) :
        /\ Len(new) = Len(old) - k
        /\ \A j \in 2..Len(new) : new[j] = old[k + j]
        /\ Len(new) >= 1 =>
             /\ new[1].Date = old[k + 1].Date
             /\ new[1].Price = old[k + 1].Price
             /\ new[1].Shares \in 1..old[k + 1].Shares
        /\ held - left = (IF sold < held THEN sold ELSE held)

FifoExample ==
    (pc = "done" /\ transactions = <<BuyX10, BuyX5, SellX12>>) =>
        /\ \E j \in DOMAIN positions :
              /\ positions[j].Symbol = "X"
              /\ positions[j].Type = "closed"
              /\ positions[j].CostBasis = 140
        /\ Len(symbolLots["X"]) = 1
        /\ symbolLots["X"][1].Shares = 3
        /\ symbolLots["X"][1].CostBasis = 60

\* C1: a Sell of symbol S takes S's lots strictly in Buy-arrival order (a lot
\* is reduced only when every earlier lot of S is gone) and leaves the lots of
\* every other symbol as they were; Buys of 10@10 and 5@20 then a Sell of 12
\* give a closed Position of cost basis 140 and leave one lot of 3 shares with
\* cost basis 60.
C1_FifoOrder ==
    /\ [][SellStep =>
            \A s \in Symbols :
                IF s = transactions[txIdx].Symbol
                THEN ConsumedFromTheFront(symbolLots[s], symbolLots'[s],
                                          transactions[txIdx].Shares,
                                          LotShares(s), LotShares(s)')
                ELSE symbolLots'[s] = symbolLots[s]]_vars
    /\ []FifoExample

C1_Witness ==
    /\ pc = "done"
    /\ transactions = <<BuyX10, BuyX5, SellX12>>
    /\ Len(symbolLots["X"]) = 1
    /\ symbolLots["X"][1].Shares = 3

\* C2: at the return, for every symbol whose Sells never ask for more than is
\* held, shares of the open Position (0 if none) plus shares of all closed
\* Positions equal the shares bought.
C2_ShareConservation ==
    pc = "done" =>
        \A s \in Symbols :
            SellsWithinHoldings(s) =>
                PositionShares(s, "open") + PositionShares(s, "closed") = SharesBought(s)

C2_Witness ==
    /\ pc = "done"
    /\ SellsWithinHoldings("X")
    /\ PositionShares("X", "open") > 0
    /\ PositionShares("X", "closed") > 0
    /\ \E j \in PositionIndices("X", "closed") : positions[j].Shares = 12

\* C3 as claimed: at the return, for every symbol with no remaining lots, the
\* realized P&L of its closed Positions sums to its sale proceeds minus the
\* cost basis bought, whatever the transaction sequence.
C3_PnLReconciliationAnySequence ==
    pc = "done" =>
        \A s \in Symbols :
            symbolLots[s] = <<>> => RealizedPnLOf(s) = ProceedsSold(s) - CostBought(s)

\* C3 amended: the same, for the sequences in which every Sell of the symbol
\* finds at least one open lot of the symbol.
C3_PnLReconciliation ==
    pc = "done" =>
        \A s \in Symbols :
            (symbolLots[s] = <<>> /\ EverySellFindsALot(s)) =>
                RealizedPnLOf(s) = ProceedsSold(s) - CostBought(s)

C3_Witness ==
    /\ pc = "done"
    /\ symbolLots["Y"] = <<>>
    /\ EverySellFindsALot("Y")
    /\ Cardinality(PositionIndices("Y", "closed")) = 2
    /\ CostBought("Y") = 24

ClosedOn(s, d) ==
    {j \in PositionIndices(s, "closed") : positions[j].CloseDate = d}

SellsDone(s) == {k \in 1..(txIdx - 1) : IsTx(k, "Sell", s)}

SellsDoneThatFoundALot(s) == {k \in SellsDone(s) : Held(s, k - 1) > 0}

Dates == {transactions[k].Date : k \in TxIndices} \cup {NoDate}

\* C4 as claimed: the closed Positions of a symbol are as many as its Sell
\* transactions, one per Sell and dated by it.
C4_OneClosedPerSell ==
    \A s \in Symbols : \A d \in Dates :
        Cardinality(ClosedOn(s, d))
            = Cardinality({k \in SellsDone(s) : transactions[k].Date = d})

\* C4 amended: one closed Position, dated by the Sell, for every Sell that
\* finds at least one open lot of its symbol, and none for a Sell that finds
\* none.
C4_OneClosedPerSellWithLots ==
    \A s \in Symbols :
        /\ Cardinality(PositionIndices(s, "closed"))
              = Cardinality(SellsDoneThatFoundALot(s))
        /\ \A d \in Dates :
              Cardinality(ClosedOn(s, d))
                 = Cardinality({k \in SellsDoneThatFoundALot(s) :
                                   transactions[k].Date = d})

C4_Witness ==
    /\ pc = "done"
    /\ Cardinality(SellsDone("Y")) = 3
    /\ Cardinality(SellsDoneThatFoundALot("Y")) = 2
    /\ Cardinality(PositionIndices("Y", "closed")) = 2

\* C5: at the return there is exactly one open Position for each symbol whose
\* remaining lots hold shares and none for another; its Shares and CostBasis
\* are the sums over the remaining lots, and with no price for the symbol its
\* CurrentPrice is 0 and its UnrealizedPnL is -CostBasis.
C5_OpenPositionPerSymbol ==
    pc = "done" =>
        \A s \in Symbols :
            /\ Cardinality(PositionIndices(s, "open"))
                  = (IF LotShares(s) # 0 THEN 1 ELSE 0)
            /\ \A j \in PositionIndices(s, "open") :
                  /\ positions[j].Shares = LotShares(s)
                  /\ positions[j].CostBasis = LotCostBasis(s)
                  /\ s \notin DOMAIN stockPrices =>
                        /\ positions[j].CurrentPrice = 0
                        /\ positions[j].UnrealizedPnL = -positions[j].CostBasis

C5_Witness ==
    /\ pc = "done"
    /\ Len(symbolLots["Y"]) = 2
    /\ "Y" \notin DOMAIN stockPrices
    /\ symbolLots["X"] = <<>>
    /\ \E j \in PositionIndices("Y", "open") : positions[j].UnrealizedPnL < 0

OverSellStep ==
    /\ SellStep
    /\ symbolLots[transactions[txIdx].Symbol] # <<>>
    /\ transactions[txIdx].Shares > LotShares(transactions[txIdx].Symbol)

\* C6: a Sell for more shares than the symbol's lots hold (at least one lot
\* held) removes all the symbol's lots, emits a closed Position with the
\* Shares and CostBasis of the lots consumed, and the loop goes on to the next
\* transaction, the symbol's queue being empty: the lots always hold what the
\* transactions so far leave, and every call returns with all of them read.
C6_OverSellSaturates ==
    /\ [][OverSellStep =>
            LET s == transactions[txIdx].Symbol IN
            /\ symbolLots' = [symbolLots EXCEPT ![s] = <<>>]
            /\ Len(positions') = Len(positions) + 1
            /\ SubSeq(positions', 1, Len(positions)) = positions
            /\ positions'[Len(positions')].Symbol = s
            /\ positions'[Len(positions')].Type = "closed"
            /\ positions'[Len(positions')].Shares = LotShares(s)
            /\ positions'[Len(positions')].CostBasis = LotCostBasis(s)
            /\ pc' = "loop"]_vars
    /\ [](\A s \in Symbols : LotShares(s) = Held(s, txIdx - 1))
    /\ [](pc = "done" => txIdx = Len(transactions) + 1)

C6_Witness ==
    /\ pc = "done"
    /\ transactions = <<BuyY4, SellY6, BuyY4>>
    /\ Len(symbolLots["Y"]) = 1
    /\ \E j \in PositionIndices("Y", "closed") :
          positions[j].Shares = 4 /\ positions[j].CostBasis = 24

(***************************************************************************)
(* Properties of CalculateOptionPositions.  The quantities below are       *)
(* computed from the input transaction list alone.                         *)
(***************************************************************************)
OptIndices == 1..Len(optionTransactions)

TxsOf(id) == {k \in OptIndices : optionTransactions[k].PositionID = id}

TxsOfWith(id, actions) ==
    {k \in TxsOf(id) : optionTransactions[k].Action \in actions}

ClosingActions == {"Buy to Close", "Expired", "Assigned", "Exercised"}

TerminalStatuses == {"Expired", "Assigned", "Exercised", "Closed Early", "Rolled"}

FirstTxOf(id) == optionTransactions[CHOOSE k \in TxsOf(id) : \A j \in TxsOf(id) : k <= j]

ReadingATransaction == opc = "loop" /\ opc' = "loop" /\ optIdx' = optIdx + 1

StatusIn(pm, id) == IF id \in DOMAIN pm THEN pm[id].Status ELSE "Open"

CloseDateIn(pm, id) == IF id \in DOMAIN pm THEN pm[id].CloseDate ELSE NoDate

\* C7 as claimed: while the transactions are read, a status changes only from
\* Open to Expired, Assigned, Exercised, Closed Early or Rolled, and a status
\* that is not Open is not changed by a later transaction of the same id.
C7_StatusOneWay ==
    [][ReadingATransaction =>
          \A id \in DOMAIN positionMap :
              positionMap'[id].Status # positionMap[id].Status =>
                  /\ positionMap[id].Status = "Open"
                  /\ positionMap'[id].Status \in TerminalStatuses]_vars

\* "roll" at some place of the notes, each letter in either case
MentionsRoll(notes) ==
    \E k \in 1..(Len(notes) - 3) :
        /\ notes[k] \in {"r", "R"}
        /\ notes[k + 1] \in {"o", "O"}
        /\ notes[k + 2] \in {"l", "L"}
        /\ notes[k + 3] \in {"l", "L"}

\* C8: the first transaction bearing a non-empty position id creates the
\* position with status Open; a Buy to Close sets Rolled when the notes contain
\* "roll" in any case and Closed Early otherwise; Expired, Assigned and
\* Exercised set the status of that name; each of these sets the close date to
\* the transaction's date; no other transaction touches status or close date.
C8_StatusClassification ==
    [][ReadingATransaction =>
          LET tx == optionTransactions[optIdx]
              id == tx.PositionID
          IN IF id = "" THEN positionMap' = positionMap
             ELSE /\ DOMAIN positionMap' = DOMAIN positionMap \cup {id}
                  /\ \A other \in DOMAIN positionMap \ {id} :
                        positionMap'[other] = positionMap[other]
                  /\ IF tx.Action = "Buy to Close"
                     THEN /\ positionMap'[id].Status =
                                (IF MentionsRoll(tx.Notes) THEN "Rolled"
                                 ELSE "Closed Early")
                          /\ positionMap'[id].CloseDate = tx.Date
                     ELSE IF tx.Action \in {"Expired", "Assigned", "Exercised"}
                     THEN /\ positionMap'[id].Status = tx.Action
                          /\ positionMap'[id].CloseDate = tx.Date
                     ELSE /\ positionMap'[id].Status = StatusIn(positionMap, id)
                          /\ positionMap'[id].CloseDate = CloseDateIn(positionMap, id)]_vars

C8_Witness ==
    /\ opc = "done"
    /\ optionTransactions = <<StoP1, BtcP1Rolled, BtcP2Rol>>
    /\ positionMap["P1"].Status = "Rolled"
    /\ positionMap["P1"].CloseDate = 4
    /\ positionMap["P2"].Status = "Closed Early"

StillOpen(id) == TxsOfWith(id, ClosingActions) = {}

ExpiryIsPast(expiry) == expiry # NoDate /\ expiry * HoursPerDay < now

\* C9: a position no transaction has closed is returned Expired with close
\* date = expiry date exactly when its expiry date (midnight of that day) is
\* strictly before the evaluation time of the call, and otherwise Open with no
\* close date; each call decides this from its own evaluation time, and no
\* step changes the input transactions.
C9_LazyExpiry ==
    /\ [](opc = "done" =>
            \A j \in DOMAIN optionPositions :
                LET p == optionPositions[j]
                    expiry == FirstTxOf(p.PositionID).Expiry
                IN StillOpen(p.PositionID) =>
                      IF ExpiryIsPast(expiry)
                      THEN p.Status = "Expired" /\ p.CloseDate = expiry
                      ELSE p.Status = "Open" /\ p.CloseDate = NoDate)
    /\ [][optionTransactions' = optionTransactions]_vars

C9_Witness ==
    /\ opc = "done"
    /\ optionTransactions = <<StoP1, StoP2>>
    /\ now = ParseDate(5) + 12
    /\ \E j \in DOMAIN optionPositions :
          /\ optionPositions[j].PositionID = "P1"
          /\ optionPositions[j].Status = "Expired"
          /\ optionPositions[j].CloseDate = 5
    /\ \E j \in DOMAIN optionPositions :
          /\ optionPositions[j].PositionID = "P2"
          /\ optionPositions[j].Status = "Open"

PremiumsSold(id) ==
    SumOver(TxsOfWith(id, {"Sell to Open"}),
            [k \in OptIndices |-> optionTransactions[k].Premium])

PremiumsBoughtBack(id) ==
    SumOver(TxsOfWith(id, {"Buy to Close"}),
            [k \in OptIndices |->
                IF optionTransactions[k].Premium < 0
                THEN -optionTransactions[k].Premium
                ELSE optionTransactions[k].Premium])

CommissionsPaid(id) ==
    SumOver(TxsOfWith(id, {"Sell to Open", "Buy to Close"}),
            [k \in OptIndices |-> optionTransactions[k].Commission])

\* C10: the NetPremium of a returned position is the sum of the Sell-to-Open
\* premiums of its id minus the sum of the absolute Buy-to-Close premiums
\* minus the commissions of those transactions, each once: a value of the
\* multiset of transactions, the same for every order they are given in.
C10_NetPremiumOrderInvariant ==
    opc = "done" =>
        \A j \in DOMAIN optionPositions :
            LET id == optionPositions[j].PositionID
            IN optionPositions[j].NetPremium
                  = PremiumsSold(id) - PremiumsBoughtBack(id) - CommissionsPaid(id)

C10_Witness ==
    /\ opc = "done"
    /\ optionTransactions = <<BtcP1, StoP1, BtcP1Rolled>>
    /\ optionPositions[1].NetPremium = 100 - 40 - 30 - 4

(***************************************************************************)
(* Capital requirement of the returned option positions                    *)
(***************************************************************************)
RatioEq(a, b) == a[1] * b[2] = b[1] * a[2]

LastTxOfWith(id, actions) ==
    optionTransactions[CHOOSE k \in TxsOfWith(id, actions) :
                          \A j \in TxsOfWith(id, actions) : j <= k]

OwnPutCapital(p) == Ratio(p.Strike * p.Contracts * 100, 1)

\* C11 as claimed: every returned position of type Put has
\* Capital = Strike * Contracts * 100 of its own fields, whatever transactions
\* of its id produced it.
C11_PutCapitalAnySequence ==
    opc = "done" =>
        \A j \in DOMAIN optionPositions :
            optionPositions[j].OptionType = "Put" =>
                RatioEq(optionPositions[j].Capital, OwnPutCapital(optionPositions[j]))

\* C11 amended: a returned position of type Put has
\* Capital = Strike * Contracts * 100 of its own fields when it has a Sell to
\* Open and its last Sell to Open is a Put with the position's Strike and
\* Contracts; with no Sell to Open its Capital is 0.
C11_PutCapital ==
    opc = "done" =>
        \A j \in DOMAIN optionPositions :
            LET p == optionPositions[j]
                opened == TxsOfWith(p.PositionID, {"Sell to Open"}) # {}
                last == LastTxOfWith(p.PositionID, {"Sell to Open"})
            IN p.OptionType = "Put" =>
                  IF ~opened THEN RatioEq(p.Capital, ZeroRatio)
                  ELSE (/\ last.OptionType = "Put"
                        /\ last.Strike = p.Strike
                        /\ last.Contracts = p.Contracts)
                          => RatioEq(p.Capital, OwnPutCapital(p))

C11_Witness ==
    /\ opc = "done"
    /\ optionTransactions = <<StoP1Two, BtcP1>>
    /\ optionPositions[1].OptionType = "Put"
    /\ optionPositions[1].Strike = 45
    /\ optionPositions[1].Contracts = 2
    /\ optionPositions[1].Capital = Ratio(9000, 1)

\* the lots of symbol s still held after the first k stock transactions, by
\* the lot tracker's FIFO rule
RECURSIVE LotsHeld(_, _)
LotsHeld(s, k) ==
    IF k = 0 THEN <<>>
    ELSE LET tx == transactions[k]
             before == LotsHeld(s, k - 1)
         IN IF tx.Symbol # s THEN before
            ELSE IF tx.Type = "Buy" THEN Append(before, NewLot(tx))
            ELSE SellResult(before, tx).newLots

HeldNow(s) == LotsHeld(s, Len(transactions))

\* C12: a returned Call position whose first transaction is its Sell to Open
\* has Capital = c * Contracts * 100, c being remaining FIFO cost basis over
\* remaining shares of the symbol's held lots when shares remain, and the Sell
\* to Open's stock price when no lot of the symbol remains.
C12_CallCapital ==
    opc = "done" =>
        \A j \in DOMAIN optionPositions :
            LET p == optionPositions[j]
                first == FirstTxOf(p.PositionID)
                held == HeldNow(p.Symbol)
            IN (p.OptionType = "Call" /\ first.Action = "Sell to Open") =>
                  /\ SumShares(held) > 0 =>
                        RatioEq(p.Capital,
                                Ratio(SumCostBasis(held) * p.Contracts * 100,
                                      SumShares(held)))
                  /\ held = <<>> =>
                        RatioEq(p.Capital,
                                Ratio(first.StockPrice * p.Contracts * 100, 1))

C12_Witness ==
    /\ opc = "done"
    /\ transactions = <<BuyX5, BuyX10, SellX12>>
    /\ optionTransactions = <<StoP3, StoP2>>
    /\ \E j \in DOMAIN optionPositions :
          /\ optionPositions[j].PositionID = "P3"
          /\ optionPositions[j].Capital = Ratio(30 * 1 * 100, 3)
    /\ \E j \in DOMAIN optionPositions :
          /\ optionPositions[j].PositionID = "P2"
          /\ optionPositions[j].Capital = Ratio(18 * 2 * 100, 1)

(***************************************************************************)
(* Days held                                                               *)
(***************************************************************************)
\* C13: every returned position with both an open date and a close date,
\* one reported Expired by the lazy-expiry rule included, has DaysHeld equal
\* to the whole days from its open date to its close date.
C13_DaysHeld ==
    opc = "done" =>
        \A j \in DOMAIN optionPositions :
            LET p == optionPositions[j] IN
            (p.OpenDate # NoDate /\ p.CloseDate # NoDate) =>
                p.DaysHeld = p.CloseDate - p.OpenDate

(***************************************************************************)
(* Order of the list CalculateAllPositions returns                         *)
(***************************************************************************)
SymbolRank(sym) == CHOOSE i \in DOMAIN SymbolOrder : SymbolOrder[i] = sym

\* C14: the returned list is ordered by symbol ascending; within one symbol
\* the open Position precedes every closed Position; among the closed
\* Positions of one symbol open dates are non-decreasing.
C14_PositionOrder ==
    pc = "done" =>
        \A i, j \in DOMAIN positions :
            i < j =>
                LET a == positions[i]
                    b == positions[j]
                IN /\ SymbolRank(a.Symbol) <= SymbolRank(b.Symbol)
                   /\ (a.Symbol = b.Symbol /\ a.Type = "closed") => b.Type = "closed"
                   /\ (a.Symbol = b.Symbol /\ a.Type = "closed" /\ b.Type = "closed")
                         => a.OpenDate <= b.OpenDate

C14_Witness ==
    /\ pc = "done"
    /\ transactions = <<BuyX5, BuyX10, SellX12, BuyY4>>
    /\ Len(positions) = 3
    /\ positions[1].Symbol = "X" /\ positions[1].Type = "open"
    /\ positions[2].Symbol = "X" /\ positions[2].Type = "closed"
    /\ positions[3].Symbol = "Y" /\ positions[3].Type = "open"

IsClosed(p) == p.Type = "closed"

\* closed Positions at i < j that tie on symbol and open date
ClosedTie(i, j) ==
    /\ i < j
    /\ positions[i].Type = "closed" /\ positions[j].Type = "closed"
    /\ positions[i].Symbol = positions[j].Symbol
    /\ positions[i].OpenDate = positions[j].OpenDate

CashIndices == DOMAIN cashTransactions

\* row k is a Deposit of a positive amount dated no later than the
\* evaluation time
IsPositiveDepositByNow(k) ==
    LET t == cashTransactions[k] IN
    /\ t.Type = "Deposit"
    /\ t.Date # NoDate
    /\ t.Date * HoursPerDay <= now
    /\ ~ParseAmount(t.Amount).err
    /\ ParseAmount(t.Amount).value > 0

OnlyPositiveDeposits ==
    /\ optionTransactions = <<>>
    /\ transactions = <<>>
    /\ cashTransactions # <<>>
    /\ \A k \in CashIndices : IsPositiveDepositByNow(k)

\* C16: with no option and no stock transactions, for any non-empty sequence
\* of positive deposits dated no later than the evaluation time, the
\* cumulative TWR is 0% and the annualized TWR is 0% (its power has base 1).
C16_CashFlowNeutral ==
    (tpc = "done" /\ OnlyPositiveDeposits) =>
        /\ cumulativeTWR[1] = 0
        /\ annualizedTWR.Base[1] = annualizedTWR.Base[2]

C16_Witness ==
    /\ tpc = "done"
    /\ OnlyPositiveDeposits
    /\ cashTransactions = <<Dep900, Dep1000, Dep100>>
    /\ Len(cashFlows) = 2
    /\ Len(periodReturns) = 2
    /\ cumulativeTWR = ZeroRatio

\* portfolio value at an instant given in seconds
ValueAt(asOf) ==
    CalculatePortfolioValueAsOf(cashTransactions, optionTransactions, transactions,
                                asOf, now)

\* start value of sub-period i: the first consolidated deposit, then the
\* value one second before deposit event i plus that deposit
StartOfPeriod(i) ==
    IF i = 1 THEN cashFlows[1].Amount
    ELSE ValueAt(cashFlows[i].Date - 1) + cashFlows[i].Amount

\* end value of sub-period i: the value one second before the next deposit
\* event, and the current value for the last sub-period
EndOfPeriod(i) ==
    IF i < Len(cashFlows) THEN ValueAt(cashFlows[i + 1].Date - 1)
    ELSE ValueAt(now * SecondsPerHour)

\* the product of 1 + r = end / start over sub-periods 1..i
RECURSIVE GrowthThrough(_)
GrowthThrough(i) ==
    IF i = 0 THEN One
    ELSE RatioMul(GrowthThrough(i - 1), Ratio(EndOfPeriod(i), StartOfPeriod(i)))

\* the amounts deposited on the day of the earliest deposit
FirstDayDeposits ==
    LET ok == {k \in CashIndices :
                  /\ cashTransactions[k].Type = "Deposit"
                  /\ cashTransactions[k].Date # NoDate
                  /\ ~ParseAmount(cashTransactions[k].Amount).err}
        first == {k \in ok : \A j \in ok :
                      cashTransactions[k].Date <= cashTransactions[j].Date}
    IN SumOver(first, [k \in first |-> ParseAmount(cashTransactions[k].Amount).value])

\* C17: sub-periods are linked geometrically: the first start value is the
\* first consolidated deposit, each later deposit event closes a sub-period
\* at the portfolio value one second before it with r = (end - start) / start
\* and opens the next at end + deposit, the last sub-period ends at the
\* current value, and the cumulative TWR is the product of (1 + r) minus 1.
C17_GeometricLinking ==
    (/\ tpc = "done"
     /\ cashFlows # <<>>
     /\ \A i \in DOMAIN cashFlows : StartOfPeriod(i) > 0) =>
        LET g == GrowthThrough(Len(cashFlows)) IN
        /\ cashFlows[1].Amount = FirstDayDeposits
        /\ Len(periodReturns) = Len(cashFlows)
        /\ cumulativeTWR[1] * g[2] = (g[1] - g[2]) * 100 * cumulativeTWR[2]

\* returns of +10% and -10% link to -1%
C17_Witness ==
    /\ tpc = "done"
    /\ cashTransactions = <<Dep1000, Dep900>>
    /\ optionTransactions = <<StoP4>>
    /\ transactions = <<BuyX1000, SellX800>>
    /\ now = ParseDate(6) + 12
    /\ periodReturns = <<Ratio(1, 10), Ratio(-1, 10)>>
    /\ cumulativeTWR = Ratio(-1, 1)

(***************************************************************************)
(* Properties of CalculateAnalytics and CalculatePositionDetails           *)
(***************************************************************************)
OpenPuts ==
    {k \in DOMAIN optionPositions :
        optionPositions[k].Status = "Open" /\ optionPositions[k].OptionType = "Put"}

OpenStocks == {k \in DOMAIN positions : positions[k].Type = "open"}

ClosedStocks == {k \in DOMAIN positions : positions[k].Type = "closed"}

\* C18: TotalActiveCapital is the sum of Capital over the Open Put option
\* positions plus the sum of CostBasis over the open stock Positions; Call
\* capital and positions that are not Open add nothing.
C18_TotalActiveCapital ==
    apc = "details" =>
        /\ \A k \in OpenPuts : optionPositions[k].Capital[2] = 1
        /\ RatioEq(totalActiveCapital,
                   Ratio(SumOver(OpenPuts,
                                 [k \in OpenPuts |-> optionPositions[k].Capital[1]])
                           + SumOver(OpenStocks,
                                     [k \in OpenStocks |-> positions[k].CostBasis]),
                         1))

C18_Witness ==
    /\ apc = "details"
    /\ optionTransactions = <<StoP1, StoP3>>
    /\ transactions = <<BuyX10, BuyY4>>
    /\ now = ParseDate(4)
    /\ Cardinality(OpenPuts) = 1
    /\ Cardinality(OpenStocks) = 2
    /\ totalActiveCapital = Ratio(5000 + 100 + 24, 1)

OpenedOn(d) ==
    {k \in DOMAIN optionPositions : optionPositions[k].OpenDate = d}

StocksClosedOn(d) == {k \in ClosedStocks : positions[k].CloseDate = d}

\* C19: the daily returns hold at most one entry per date, in ascending date
\* order; the entry of date D has Premiums = sum of NetPremium of the option
\* positions opened on D, StockGains = sum of RealizedPnL of the closed stock
\* Positions closed on D and TotalReturns = Premiums + StockGains, and every
\* date with a contribution has an entry.
C19_DailyReturns ==
    apc = "details" =>
        /\ \A i, j \in DOMAIN dailyReturns :
              i < j => dailyReturns[i].Date < dailyReturns[j].Date
        /\ \A i \in DOMAIN dailyReturns :
              LET r == dailyReturns[i] IN
              /\ r.Premiums =
                    SumOver(OpenedOn(r.Date),
                            [k \in OpenedOn(r.Date) |-> optionPositions[k].NetPremium])
              /\ r.StockGains =
                    SumOver(StocksClosedOn(r.Date),
                            [k \in StocksClosedOn(r.Date) |-> positions[k].RealizedPnL])
              /\ r.TotalReturns = r.Premiums + r.StockGains
        /\ \A k \in DOMAIN optionPositions :
              optionPositions[k].OpenDate # NoDate =>
                 \E i \in DOMAIN dailyReturns :
                    dailyReturns[i].Date = optionPositions[k].OpenDate
        /\ \A k \in ClosedStocks :
              \E i \in DOMAIN dailyReturns : dailyReturns[i].Date = positions[k].CloseDate

C19_Witness ==
    /\ apc = "details"
    /\ optionTransactions = <<StoP2, StoP1>>
    /\ transactions = <<BuyX10, SellX3>>
    /\ Len(dailyReturns) = 2
    /\ dailyReturns[1].Date = 1
    /\ dailyReturns[1].TotalReturns = 99
    /\ dailyReturns[2].Date = 3
    /\ dailyReturns[2].Premiums = 58
    /\ dailyReturns[2].StockGains = -6
    /\ dailyReturns[2].TotalReturns = 52

OpenCallsOn(sym) ==
    {k \in DOMAIN optionPositions :
        /\ optionPositions[k].Status = "Open"
        /\ optionPositions[k].OptionType = "Call"
        /\ optionPositions[k].Symbol = sym}

OpenStockOf(sym) == {k \in OpenStocks : positions[k].Symbol = sym}

StockOrCallEntries(sym) ==
    {k \in DOMAIN positionDetails :
        /\ positionDetails[k].Symbol = sym
        /\ positionDetails[k].Type \in {"Stock", "Call"}}

\* C20: a symbol with an open stock Position and at least one open Call has
\* exactly one Stock-or-Call entry, a Call entry whose amount is the stock
\* Position's cost basis, however many open Calls there are; a symbol with
\* an open stock Position and no open Call has exactly one, a Stock entry.
C20_CoveredCallShownOnce ==
    apc = "done" =>
        \A sym \in Symbols :
            OpenStockOf(sym) # {} =>
                /\ Cardinality(StockOrCallEntries(sym)) = 1
                /\ \A k \in StockOrCallEntries(sym) :
                      IF OpenCallsOn(sym) # {}
                      THEN /\ positionDetails[k].Type = "Call"
                           /\ \A j \in OpenStockOf(sym) :
                                 RatioEq(positionDetails[k].Amount,
                                         Ratio(positions[j].CostBasis, 1))
                      ELSE positionDetails[k].Type = "Stock"

C20_Witness ==
    /\ apc = "done"
    /\ optionTransactions = <<StoP3, StoP5>>
    /\ transactions = <<BuyX10, BuyY4>>
    /\ now = ParseDate(4)
    /\ Cardinality(OpenCallsOn("X")) = 2
    /\ positionDetails = <<[Symbol |-> "X", Type |-> "Call", Amount |-> Ratio(100, 1)],
                           [Symbol |-> "Y", Type |-> "Stock", Amount |-> Ratio(24, 1)]>>

(***************************************************************************)
(* Sign of lots and Positions                                              *)
(***************************************************************************)
\* every input row has a positive share count and a non-negative amount and
\* commission
WellSignedTransactions ==
    \A k \in DOMAIN transactions :
        /\ transactions[k].Shares > 0
        /\ transactions[k].Amount >= 0
        /\ transactions[k].Commission >= 0

\* C21: for Buys and Sells with positive shares and non-negative amounts and
\* commissions, over-selling included, after every transaction each lot of
\* every symbol's queue has Shares > 0 and CostBasis >= 0, and every
\* Position has Shares >= 0 and CostBasis >= 0.
C21_LotsNeverNegative ==
    (pc # "idle" /\ WellSignedTransactions) =>
        /\ \A sym \in Symbols : \A k \in DOMAIN symbolLots[sym] :
              symbolLots[sym][k].Shares > 0 /\ symbolLots[sym][k].CostBasis >= 0
        /\ \A k \in DOMAIN positions :
              positions[k].Shares >= 0 /\ positions[k].CostBasis >= 0

\* a partial sale followed by an over-sell of what it left
C21_Witness ==
    /\ pc = "done"
    /\ WellSignedTransactions
    /\ transactions = <<BuyX5, BuyX10, SellX12, SellX12>>
    /\ symbolLots["X"] = <<>>
    /\ Len(positions) = 2
    /\ positions[2].Shares = 3
    /\ positions[2].CostBasis = 30

(***************************************************************************)
(* Days to expiry and the annualized return                                *)
(***************************************************************************)
Max(a, b) == IF a >= b THEN a ELSE b

\* C22: a returned position with an open date and an expiry has
\* DaysToExpiry = max(1, whole days from open date to expiry); when its
\* Capital is positive, AnnualizedReturn = PercentReturn / DaysToExpiry * 365
\* whatever DaysHeld is; and no quotient of a returned position has a zero
\* divisor.
C22_DaysToExpiryFloor ==
    opc = "done" =>
        \A j \in DOMAIN optionPositions :
            LET p == optionPositions[j] IN
            /\ p.PercentReturn[2] # 0
            /\ p.AnnualizedReturn[2] # 0
            /\ (p.OpenDate # NoDate /\ p.Expiry # NoDate) =>
                  /\ p.DaysToExpiry = Max(1, p.Expiry - p.OpenDate)
                  /\ p.Capital[1] > 0 =>
                        Reduced(p.AnnualizedReturn)
                           = RatioMul(Reduced(p.PercentReturn),
                                      Ratio(365, p.DaysToExpiry))

\* a position opened after its expiry date, with a return to annualize
C22_Witness ==
    /\ opc = "done"
    /\ \E j \in DOMAIN optionPositions :
          LET p == optionPositions[j] IN
          /\ p.OpenDate # NoDate /\ p.Expiry # NoDate
          /\ p.Expiry < p.OpenDate
          /\ p.DaysToExpiry = 1
          /\ p.Capital[1] > 0
          /\ p.DaysHeld # p.DaysToExpiry
          /\ p.AnnualizedReturn[1] # 0

(***************************************************************************)
(* Sub-periods with a start value that is not positive                     *)
(***************************************************************************)
NoParseableDeposit ==
    \A k \in CashIndices :
        \/ cashTransactions[k].Type # "Deposit"
        \/ cashTransactions[k].Date = NoDate
        \/ ParseAmount(cashTransactions[k].Amount).err

\* end value of the sub-period the loop is closing
EndOfCurrentPeriod ==
    IF flowIdx <= Len(cashFlows) THEN ValueAt(cashFlows[flowIdx].Date - 1)
    ELSE ValueAt(now * SecondsPerHour)

\* the product of (1 + r) over the first k recorded period returns
RECURSIVE FactorsThrough(_)
FactorsThrough(k) ==
    IF k = 0 THEN One
    ELSE RatioMul(FactorsThrough(k - 1),
                  Ratio(periodReturns[k][1] + periodReturns[k][2], periodReturns[k][2]))

ClosesAPeriod ==
    /\ startValue <= 0 => periodReturns' = periodReturns
    /\ startValue > 0 =>
          /\ Len(periodReturns') = Len(periodReturns) + 1
          /\ SubSeq(periodReturns', 1, Len(periodReturns)) = periodReturns
          /\ RatioEq(periodReturns'[Len(periodReturns')],
                     Ratio(EndOfCurrentPeriod - startValue, startValue))
    /\ flowIdx <= Len(cashFlows) =>
          startValue' = EndOfCurrentPeriod + cashFlows[flowIdx].Amount

\* C23: with no parseable Deposit the result is (0, 0); a sub-period whose
\* start value is <= 0 records no return and so adds no factor to the
\* cumulative product, a sub-period with a positive start value records
\* (end - start) / start, and either way the next start value is the end
\* value plus the next deposit.
C23_NonPositiveStart ==
    /\ [][tpc = "periods" => ClosesAPeriod]_vars
    /\ [](tpc = "done" =>
            IF NoParseableDeposit
            THEN /\ cumulativeTWR[1] = 0
                 /\ annualizedTWR.Base[1] = annualizedTWR.Base[2]
                 /\ periodReturns = <<>>
            ELSE LET f == FactorsThrough(Len(periodReturns)) IN
                 RatioEq(cumulativeTWR, Ratio((f[1] - f[2]) * 100, f[2])))

\* a deposit of 100 lost twice over before a deposit of 0: the last
\* sub-period starts at -100 and records nothing
C23_Witness ==
    /\ tpc = "done"
    /\ cashTransactions = <<Dep100, DepZero>>
    /\ optionTransactions = <<>>
    /\ transactions = <<BuyX1000, SellX800>>
    /\ now = ParseDate(6) + 12
    /\ Len(cashFlows) = 2
    /\ startValue = -100
    /\ periodReturns = <<Ratio(-2, 1)>>
    /\ cumulativeTWR = Ratio(-200, 1)

(***************************************************************************)
(* Properties of CalculateSectorExposure                                   *)
(***************************************************************************)
SectorNames == {"Tech", "Energy", "Other"}

\* the sector a symbol counts under
SectorOfSymbol(sym) ==
    IF sym \in DOMAIN sectorMap /\ sectorMap[sym] # "" THEN sectorMap[sym] ELSE "Other"

OpenStocksIn(sec) == {k \in OpenStocks : SectorOfSymbol(positions[k].Symbol) = sec}

OpenPutsIn(sec) == {k \in OpenPuts : SectorOfSymbol(optionPositions[k].Symbol) = sec}

ExposureOf(sec) ==
    SumOver(OpenStocksIn(sec), [k \in OpenStocksIn(sec) |-> positions[k].CostBasis])
      + SumOver(OpenPutsIn(sec),
                [k \in OpenPutsIn(sec) |-> optionPositions[k].Capital[1]])

EntriesOf(sec) == {k \in DOMAIN sectorExposures : sectorExposures[k].Sector = sec}

\* C24: there is one entry for each sector with positive exposure and none
\* for any other; its Amount is the CostBasis of the open stock Positions
\* plus the Capital of the Open Puts of the symbols of that sector, a symbol
\* without a sector counting under "Other" and Calls counting nowhere; the
\* entries are in descending order of Amount.
C24_SectorExposure ==
    spc = "done" =>
        /\ \A k \in OpenPuts : optionPositions[k].Capital[2] = 1
        /\ \A k \in DOMAIN sectorExposures : sectorExposures[k].Sector \in SectorNames
        /\ \A sec \in SectorNames :
              IF ExposureOf(sec) > 0
              THEN /\ Cardinality(EntriesOf(sec)) = 1
                   /\ \A k \in EntriesOf(sec) :
                         RatioEq(sectorExposures[k].Amount, Ratio(ExposureOf(sec), 1))
              ELSE EntriesOf(sec) = {}
        /\ \A i, j \in DOMAIN sectorExposures :
              i < j => ~RatioLess(sectorExposures[i].Amount, sectorExposures[j].Amount)

C24_Witness ==
    /\ spc = "done"
    /\ sectorMap = [s \in {"X"} |-> "Tech"]
    /\ transactions = <<BuyY4, BuyX10>>
    /\ optionTransactions = <<StoP3, StoP1>>
    /\ now = ParseDate(4)
    /\ Len(sectorExposures) = 2
    /\ sectorExposures[1].Sector = "Tech"
    /\ sectorExposures[1].Amount = Ratio(5100, 1)
    /\ sectorExposures[2].Sector = "Other"
    /\ sectorExposures[2].Amount = Ratio(24, 1)

(***************************************************************************)
(* calculateStockCostBasisAtDate against CalculateAllPositions             *)
(***************************************************************************)
OpenStocksOf(sym) == {k \in OpenStocks : positions[k].Symbol = sym}

\* C25: over the same stock transactions, calculateStockCostBasisAtDate has
\* an entry for a symbol exactly when CalculateAllPositions returns an open
\* Position for it, and the entry is that Position's CostBasis over its
\* Shares; a Sell of more than is held is included.
C25_CostBasisRefinement ==
    pc = "done" =>
        \A sym \in Symbols :
            /\ sym \in DOMAIN calculateStockCostBasisAtDate(transactions)
                  <=> OpenStocksOf(sym) # {}
            /\ \A k \in OpenStocksOf(sym) :
                  /\ positions[k].Shares > 0
                  /\ RatioEq(calculateStockCostBasisAtDate(transactions)[sym],
                             Ratio(positions[k].CostBasis, positions[k].Shares))

C25_Witness ==
    /\ pc = "done"
    /\ transactions = <<BuyX5, BuyX10, SellX3, SellY6>>
    /\ DOMAIN calculateStockCostBasisAtDate(transactions) = {"X"}
    /\ calculateStockCostBasisAtDate(transactions)["X"] = Ratio(140, 12)
    /\ \E k \in OpenStocks : /\ positions[k].Symbol = "X"
                             /\ positions[k].CostBasis = 140
                             /\ positions[k].Shares = 12

(***************************************************************************)
(* Conservation of cost basis                                              *)
(***************************************************************************)
OpenCostBasisOf(sym) ==
    SumOver(OpenStocksOf(sym), [k \in OpenStocksOf(sym) |-> positions[k].CostBasis])

ClosedStocksOf(sym) == {k \in ClosedStocks : positions[k].Symbol = sym}

ClosedCostBasisOf(sym) ==
    SumOver(ClosedStocksOf(sym), [k \in ClosedStocksOf(sym) |-> positions[k].CostBasis])

\* the lot the Sell of n shares stops in: the lots before it are sold whole
\* and some but not all of its shares are sold; 0 when there is none
PartlySoldLot(lots, n) ==
    IF \E i \in DOMAIN lots : /\ SumShares(SubSeq(lots, 1, i - 1)) < n
                              /\ n < SumShares(SubSeq(lots, 1, i))
    THEN CHOOSE i \in DOMAIN lots : /\ SumShares(SubSeq(lots, 1, i - 1)) < n
                                    /\ n < SumShares(SubSeq(lots, 1, i))
    ELSE 0

\* the step is a Sell that sells a part of a lot, and the cost basis it
\* takes out of the lot and puts in the closed Position is the lot's cost
\* basis times shares sold of the lot over the lot's shares
PartialSaleMovesItsShare ==
    (pc = "loop" /\ txIdx <= Len(transactions) /\ txIdx' = txIdx + 1
        /\ transactions[txIdx].Type = "Sell"
        /\ PartlySoldLot(symbolLots[transactions[txIdx].Symbol],
                         transactions[txIdx].Shares) # 0) =>
    LET tx == transactions[txIdx]
        lots == symbolLots[tx.Symbol]
        i == PartlySoldLot(lots, tx.Shares)
        soldOfLot == tx.Shares - SumShares(SubSeq(lots, 1, i - 1))
        kept == symbolLots'[tx.Symbol][1]
        moved == lots[i].CostBasis - kept.CostBasis
    IN /\ kept.Shares = lots[i].Shares - soldOfLot
       /\ moved * lots[i].Shares = lots[i].CostBasis * soldOfLot
       /\ Len(positions') = Len(positions) + 1
       /\ positions'[Len(positions')].CostBasis
             = SumCostBasis(SubSeq(lots, 1, i - 1)) + moved

\* C26: for a symbol whose Sells never exceed the shares held, the CostBasis
\* of its open Position (0 without one) plus the CostBasis of its closed
\* Positions is the sum of amount + commission over its Buys; and a partial
\* sale of a lot moves the lot's cost basis times shares sold over lot shares.
C26_CostBasisConservation ==
    /\ [][PartialSaleMovesItsShare]_vars
    /\ [](pc = "done" =>
            \A sym \in Symbols :
                SellsWithinHoldings(sym) =>
                    OpenCostBasisOf(sym) + ClosedCostBasisOf(sym) = CostBought(sym))

C26_Witness ==
    /\ pc = "done"
    /\ transactions = <<BuyY4, BuyX5, SellY1, SellX3>>
    /\ SellsWithinHoldings("X") /\ SellsWithinHoldings("Y")
    /\ OpenCostBasisOf("Y") = 18 /\ ClosedCostBasisOf("Y") = 6
    /\ OpenCostBasisOf("X") = 40 /\ ClosedCostBasisOf("X") = 60

(***************************************************************************)
(* Properties of update-universe's worker pool                             *)
(***************************************************************************)
StockIndices == DOMAIN stocks

\* workers that have returned from their goroutine
WorkersExited == Workers - waiting - BagCardinality(working)

PoolSafe ==
    /\ ~panicked
    /\ resultsClosed => WorkersExited = Workers
    /\ \A i \in StockIndices : taken[i] <= 1 /\ delivered[i] <= 1
    /\ \A wk \in BagToSet(working) : CopiesIn(wk, working) = 1
    /\ mainPc \in {"write", "done"} =>
          \A i \in StockIndices : taken[i] = 1 /\ delivered[i] = 1

\* C27: every index is received from jobs by exactly one worker and exactly
\* one result for it reaches main; results is closed only when every worker
\* has returned, and no worker sends on it once it is closed; and main
\* always gets to the write-back.
C27_WorkerPool ==
    /\ [](mainPc # "idle" => PoolSafe)
    /\ <>(mainPc = "done")

C27_Witness ==
    /\ mainPc = "done"
    /\ Len(stocks) = 3
    /\ \A i \in StockIndices : taken[i] = 1 /\ delivered[i] = 1
    /\ resultsClosed
    /\ WorkersExited = Workers
    /\ ~panicked

\* the quote fetched for index i that counts as a success, if any
GoodQuotes(i) == {q \in quoted[i] : ~q.err /\ q.price # 0}

\* a step changes stocks only when main handles a result, and then it sets
\* the Price at the result's index to a price fetched for that index, with
\* no error and not 0; a result of a failed fetch changes nothing
PriceWrittenByMainOnly ==
    /\ stocks' # stocks =>
          /\ mainPc = "results"
          /\ results # <<>>
          /\ \E q \in GoodQuotes(Head(results).index) :
                stocks' = [stocks EXCEPT ![Head(results).index].Price = q.price]
    /\ (mainPc = "results" /\ results # <<>> /\ results' = Tail(results)
           /\ GoodQuotes(Head(results).index) = {}) => stocks' = stocks

PricesAsFetched ==
    \A i \in StockIndices :
        /\ stocks[i].Ticker = universeFile[i].Ticker
        /\ stocks[i].Name = universeFile[i].Name
        /\ stocks[i].Sector = universeFile[i].Sector
        /\ mainPc # "done" =>
              IF delivered[i] = 1 /\ GoodQuotes(i) # {}
              THEN \E q \in GoodQuotes(i) : stocks[i].Price = q.price
              ELSE stocks[i].Price = universeFile[i].Price

\* C28: Price is written only by main, and only with the price of a fetch
\* for the same index that succeeded with a price other than 0; after a
\* failed fetch or a price of 0 the stock keeps its Price; Ticker, Name and
\* Sector never change; successCount + errorCount is N at the write-back.
C28_PriceFrame ==
    /\ [][PriceWrittenByMainOnly]_vars
    /\ [](mainPc # "idle" =>
            /\ PricesAsFetched
            /\ mainPc \in {"write", "done"} =>
                  successCount + errorCount = Len(stocks))

C28_Witness ==
    /\ mainPc = "write"
    /\ Len(stocks) = 3
    /\ quoted[1] = {[err |-> FALSE, price |-> 11]} /\ stocks[1].Price = 11
    /\ quoted[2] = {[err |-> TRUE, price |-> 0]} /\ stocks[2].Price = 7
    /\ quoted[3] = {[err |-> FALSE, price |-> 0]} /\ stocks[3].Price = 0
    /\ successCount = 1
    /\ errorCount = 2

(***************************************************************************)
(* Dry powder                                                              *)
(***************************************************************************)
\* C29: on the same deposits, option positions and stock positions,
\* analysis.getDryPowder returns the DryPowder of web.CalculateCashPosition
\* computed from CalculateAnalytics, an option position with a negative net
\* premium included.
C29_DryPowderAgreement ==
    cpc = "done" => RatioEq(cashPosition.DryPowder, dryPowder)

\* the two agree when no option position has a negative net premium
DryPowderAgreesWithoutLosses ==
    (cpc = "done" /\ \A k \in DOMAIN optionPositions :
                        optionPositions[k].NetPremium >= 0) =>
        RatioEq(cashPosition.DryPowder, dryPowder)

(***************************************************************************)
(* Conservation over the daily returns                                     *)
(***************************************************************************)
DailyIndices == DOMAIN dailyReturns

SumOfTotalReturns ==
    SumOver(DailyIndices, [i \in DailyIndices |-> dailyReturns[i].TotalReturns])

PremiumDetailCount ==
    SumOver(DailyIndices, [i \in DailyIndices |-> Len(dailyReturns[i].PremiumDetails)])

StockDetailCount ==
    SumOver(DailyIndices, [i \in DailyIndices |-> Len(dailyReturns[i].StockDetails)])

OptionIndices == DOMAIN optionPositions

\* the option positions with an open date, that is, with a Sell to Open
DatedOptions == {k \in OptionIndices : optionPositions[k].OpenDate # NoDate}

NetPremiumOver(S) == SumOver(S, [k \in S |-> optionPositions[k].NetPremium])

RealizedPnLOfClosed ==
    SumOver(ClosedStocks, [k \in ClosedStocks |-> positions[k].RealizedPnL])

\* C30 as claimed: the TotalReturns of the daily returns sum to the
\* NetPremium of all option positions plus the RealizedPnL of all closed stock
\* Positions, each position appearing once in the series.
C30_DailyReturnConservationAnyPosition ==
    apc = "details" =>
        /\ SumOfTotalReturns = NetPremiumOver(OptionIndices) + RealizedPnLOfClosed
        /\ PremiumDetailCount = Cardinality(OptionIndices)
        /\ StockDetailCount = Cardinality(ClosedStocks)

\* C30 amended: the TotalReturns of the daily returns sum to the NetPremium,
\* positive or negative, of the option positions that have an open date plus
\* the RealizedPnL of all closed stock Positions; each of these positions
\* appears once in the series and an option position without an open date
\* does not appear.
C30_DailyReturnConservation ==
    apc = "details" =>
        /\ SumOfTotalReturns = NetPremiumOver(DatedOptions) + RealizedPnLOfClosed
        /\ PremiumDetailCount = Cardinality(DatedOptions)
        /\ StockDetailCount = Cardinality(ClosedStocks)

C30_Witness ==
    /\ apc = "details"
    /\ optionTransactions = <<StoP1, BtcP1AtLoss>>
    /\ transactions = <<BuyX10, SellX3>>
    /\ NetPremiumOver(DatedOptions) = -52
    /\ RealizedPnLOfClosed = -6
    /\ Len(dailyReturns) = 2
    /\ SumOfTotalReturns = -58

====
